---- MODULE Spec2Model ----
(***************************************************************************)
(* A model of github.com/actforgood/xconf: the Config runtime              *)
(* (config.go), MultiLoader (loader_multi.go), FileCacheLoader             *)
(* (loader_decorator_filecache_loader.go), the deep copy of configuration  *)
(* maps (deepcopy.go, loader_plain.go), ConsulLoader (loader_consul.go),   *)
(* EtcdLoader (loader_etcd.go), FilterKVLoader                             *)
(* (loader_decorator_filter_kv.go) and FlagSetLoader.                      *)
(*                                                                         *)
(* Each component has its own variables, initial predicate, next-state     *)
(* relation and specification; the variables of the other components are   *)
(* held at their rest value by the specification of a component.           *)
(***************************************************************************)
EXTENDS Integers, Sequences, FiniteSets, TLC

\* ------------------------------------------------------------------------
\* Bounds of the exploration
\* ------------------------------------------------------------------------

\* ticks of the reload ticker that are explored
MaxReloads == 2
\* observers that may be registered on the Config
MaxObservers == 2
\* child loaders a MultiLoader is built with, at most
MaxLoaders == 3
\* Load calls made on the FileCacheLoader
MaxFcLoads == 3
\* changes made to the file the FileCacheLoader watches
MaxWrites == 2
\* the latest modification time a change gives the file
MaxModTime == 3
\* Load calls made on the loaders of the composition
MaxOwLoads == 2
\* changes callers make to the maps they hold
MaxMutations == 1
\* Load calls the threads make on the FileCacheLoader they share
MaxCcLoads == 3
\* changes the writer makes to the file while the threads load
MaxCcWrites == 2
\* Load calls made on the Consul loader
MaxCsLoads == 3
\* changes made to the keys on the Consul server
MaxCsChanges == 2
\* the largest ModifyIndex the Consul server gives a key
MaxModifyIndex == 2
\* Load calls made on the watch-backed Etcd loader
MaxEtLoads == 3
\* changes made to the keys on the Etcd server
MaxEtChanges == 1
\* Close calls made on the watch-backed Etcd loader
MaxEtCloses == 2
\* changes of the source while the Config reloads
MaxRlChanges == 2
\* Close calls made on the Config
MaxRlCloses == 2
\* filters a FilterKVLoader is built with, at most
MaxFilters == 3
\* calls of setConfigMap on the Config whose Gets are observed: the
\* constructor's and the reloads'
MaxGvLoads == 3
\* Loads of the FlagSetLoader
MaxFlLoads == 3
\* flags set after the flag set was parsed
MaxFlSets == 1

\* Loads started by the threads that call Load on one Etcd loader
MaxElLoads == 3

\* decode errors the watch task buffers
MaxElErrors == 2

\* reloads, RegisterObserver calls and Get calls on the Config whose lock is
\* observed
MaxNfReloads == 2

MaxNfRegisters == 2

MaxNfGets == 1

\* ------------------------------------------------------------------------
\* Go values and maps
\* ------------------------------------------------------------------------

\* the nil interface value: what a Go map lookup yields for an absent key
Nil == "nil"

\* a map without entries
EmptyMap == [k \in {} |-> Nil]

\* value := m[k]
Lookup(m, k) == IF k \in DOMAIN m THEN m[k] ELSE Nil

\* m[k] = v
MapSet(m, k, v) == [x \in DOMAIN m \cup {k} |-> IF x = k THEN v ELSE m[x]]

\* delete(m, k)
MapDel(m, k) == [x \in DOMAIN m \ {k} |-> m[x]]

\* the elements of a sequence
Range(s) == {s[i] : i \in 1..Len(s)}

\* strings.ToUpper on the keys of the model
ToUpper(k) ==
    CASE k = "a" -> "A"
      [] k = "b" -> "B"
      [] k = "c" -> "C"
      [] OTHER -> k

\* strings.ToLower on the keys of the model
ToLower(k) ==
    CASE k = "A" -> "a"
      [] k = "B" -> "b"
      [] k = "C" -> "c"
      [] OTHER -> k

\* The order in which a range over a map yields its keys.  Go leaves it
\* unspecified; the model fixes one order for the list of changed keys.
KeyOrder == <<"A", "B", "C", "a", "b", "c">>

\* ========================================================================
\* Config runtime (config.go)
\* ========================================================================

VARIABLES
    cfgOpts,       \* options given to NewDefaultConfig
    cfgPhase,      \* "new" (constructor running), "ready", "failed"
    cfgObjs,       \* the map objects: ObjId -> content
    cfgRef,        \* cfg.configMap: the installed map object
    cfgRun,        \* the task running setConfigMap (constructor or reload task)
    cfgMu,         \* cfg.mu: readers holding RLock, tasks waiting in Lock
    cfgObservers,  \* cfg.observers
    cfgNotify,     \* notifyObservers in progress
    cfgGet,        \* a caller of Get
    cfgReg,        \* a caller of RegisterObserver
    cfgTicks,      \* ticks consumed by the reload task
    cfgCalls,      \* history: observers invoked by the last notifyObservers
    cfgHandled,    \* history: calls of the reload-error handler (count, last error)
    cfgErrs,       \* history: failed Loads of the reload task (count, last error)
    cfgBefore,     \* history: the snapshot's content when the last tick fired
    cfgObsAtTick,  \* history: cfg.observers when the last tick fired
    cfgLast,       \* history: how the last reload ended: "none", "ok", "err"
    cfgSnapPrev,   \* history: the complete snapshot built before cfgSnapLast
    cfgSnapLast    \* history: the last snapshot whose construction completed

cfgVars == <<cfgOpts, cfgPhase, cfgObjs, cfgRef, cfgRun, cfgMu,
             cfgObservers, cfgNotify, cfgGet, cfgReg, cfgTicks, cfgCalls,
             cfgHandled, cfgErrs, cfgBefore, cfgObsAtTick, cfgLast,
             cfgSnapPrev, cfgSnapLast>>

\* MultiLoader (loader_multi.go)
VARIABLES
    mlAllow,     \* loader.allowKeyOverwrite
    mlChildren,  \* what the Load of each child loader returns, in declaration order
    mlResults,   \* results: the slice the loadAsync tasks fill
    mlDone,      \* the loadAsync tasks that have finished
    mlOrder,     \* history: the children in the order in which they finished
    mlPc,        \* "loading", "merge", "returned", "panic"
    mlIdx,       \* idx of the merge loop
    mlMerge,     \* configMap, unqKeys and mErr of the merge loop
    mlRet        \* the map Load returned

mlVars == <<mlAllow, mlChildren, mlResults, mlDone, mlOrder, mlPc, mlIdx,
            mlMerge, mlRet>>

\* FileCacheLoader (loader_decorator_filecache_loader.go)
VARIABLES
    fcFile,       \* the file: whether it exists, its modification time, its content
    fcCache,      \* decorator.cache: configMap and lastModified
    fcPc,         \* where the Load in progress stands: "idle", "cache", "child", "save"
    fcLocal,      \* fModifiedAt and configMap of the Load in progress
    fcLoads,      \* history: Load calls started
    fcWrites,     \* history: changes made to the file
    fcChildCalls, \* history: Load calls made on the decorated loader
    fcCur,        \* history: the latest Load, what it saw and what it returned
    fcFill,       \* history: the latest Load that stored its result in the cache
    fcStable      \* history: the file still has the modification time fcFill stored

fcVars == <<fcFile, fcCache, fcPc, fcLocal, fcLoads, fcWrites, fcChildCalls,
            fcCur, fcFill, fcStable>>

\* A composition of loaders over one heap of Go maps and slices:
\* MultiLoader(PlainLoader(user map), FileCacheLoader(JSONFileLoader))
VARIABLES
    owHeap,      \* the maps and slices allocated so far; a reference is an index
    owAllow,     \* allowKeyOverwrite of the MultiLoader
    owUser,      \* the map the user built the PlainLoader with
    owPlain,     \* configMapCopy of the PlainLoader
    owCache,     \* cache of the FileCacheLoader: configMap (0 is nil), lastModified
    owReturned,  \* history: the maps Load calls returned to callers
    owLast,      \* history: the latest Load, the value it returned, the changes made before it
    owLoads,     \* history: Load calls made
    owTouched,   \* history: the maps and slices callers changed
    owChanges    \* history: changes callers made

owVars == <<owHeap, owAllow, owUser, owPlain, owCache, owReturned, owLast,
            owLoads, owTouched, owChanges>>

\* FileCacheLoader under concurrent Loads (loader_decorator_filecache_loader.go)
VARIABLES
    ccFile,      \* the file: its modification time and its content
    ccCache,     \* decorator.cache: configMap (a reference, or Nil) and lastModified
    ccObjs,      \* the maps cache.configMap may refer to
    ccMu,        \* cache.mu: the threads holding RLock
    ccThr,       \* per thread: where its Load stands, its locals, what it returned
    ccLoads,     \* history: Load calls started
    ccWrites,    \* history: changes made to the file
    ccChildMaps  \* history: the maps Loads of the decorated loader returned

ccVars == <<ccFile, ccCache, ccObjs, ccMu, ccThr, ccLoads, ccWrites,
            ccChildMaps>>

\* ConsulLoader with its cache (loader_consul.go)
VARIABLES
    csServer,   \* the keys under the loaded prefix: ModifyIndex and Value of each
    csFormat,   \* loader.valueFormat
    csCache,    \* loader.cache: enabled or not, configMap and versionIDs
    csLast,     \* history: what the last Load received, did and returned
    csFill,     \* history: the map returned by the Load that last saved the cache
    csLoads,    \* history: Load calls made
    csChanges   \* history: changes made on the server

csVars == <<csServer, csFormat, csCache, csLast, csFill, csLoads, csChanges>>

\* EtcdLoader with the watcher strategy (loader_etcd.go)
VARIABLES
    etServer,   \* the keys of the etcd server under the loaded key: their values
    etFormat,   \* info.valueFormat
    etClient,   \* loaderStrategy.client: Nil, "open" or "closed"
    etLive,     \* loaderStrategy.configMap, the live map
    etErrs,     \* loaderStrategy.mErr: the buffered errors, by event number
    etWatch,    \* the watch task: where it stands and the event it holds
    etChan,     \* watchChan: the events delivered and not yet received
    etLoad,     \* the caller of Load: where its Load stands
    etClose,    \* the caller of Close: where its Close stands, what it returns
    etLast,     \* history: what the last Load returned
    etCloseRes, \* history: what each Close that returned found and returned
    etSeed,     \* history: the map the initial Range seeded
    etApplied,  \* history: the events the watch task received and applied, in order
    etCount     \* history: Loads, Closes, server changes, Loads that returned errors,
                \* clients created, Ranges issued, watch tasks started

etVars == <<etServer, etFormat, etClient, etLive, etErrs, etWatch, etChan,
            etLoad, etClose, etLast, etCloseRes, etSeed, etApplied, etCount>>

\* Config with reload enabled: the reload task and Close (config.go)
VARIABLES
    rlCtor,     \* NewDefaultConfig: "new", "loaded", "returned" or "failed"
    rlSource,   \* the state of the source the loader reads
    rlSnap,     \* cfg.configMap, as the source state it was loaded from
    rlTick,     \* cfg.ticker.C holds a tick
    rlTicker,   \* cfg.ticker: "none", "running" or "stopped"
    rlClosed,   \* cfg.closed is closed
    rlTask,     \* the reload task: where it stands and the map it loaded
    rlClose,    \* the caller of Close: where its Close stands
    rlGet,      \* history: what the last Get returned, and when
    rlSettled,  \* history: a tick taken after the last change of the source has completed
    rlAfter,    \* history: what Close has returned and what happened after it
    rlCount     \* history: changes of the source and calls of Close

rlVars == <<rlCtor, rlSource, rlSnap, rlTick, rlTicker, rlClosed, rlTask, rlClose,
            rlGet, rlSettled, rlAfter, rlCount>>

\* FilterKVLoader (loader_decorator_filter_kv.go)
VARIABLES
    fkFilters,  \* the filters the decorator was built with, in the order given
    fkChild,    \* what the Load of the decorated loader returns
    fkPc,       \* the Load of the decorator: "idle", "range", "returned"
    fkMap,      \* configMap, the map of the decorated loader being filtered
    fkTodo,     \* the keys the range over configMap has still to yield
    fkRet       \* what Load returned

fkVars == <<fkFilters, fkChild, fkPc, fkMap, fkTodo, fkRet>>

\* Config: the values Get returns, to callers and to observers (config.go)
VARIABLES
    gvOpts,      \* the options of the Config: ignoreCaseSensitivity
    gvSnap,      \* cfg.configMap
    gvObserver,  \* an observer is registered
    gvRun,       \* setConfigMap of the constructor or of the reload task
    gvGet,       \* history: the last Get, what it read and returned, and when
    gvLoads      \* history: calls of setConfigMap

gvVars == <<gvOpts, gvSnap, gvObserver, gvRun, gvGet, gvLoads>>

\* FlagSetLoader (loader_flagset.go)
VARIABLES
    flAll,      \* all: every flag is visited, not only the flags that were set
    flFlags,    \* the flag set: per flag its value and whether it was set
    flParsed,   \* flgSet.Parsed()
    flMap,      \* configMap, the map the loader keeps
    flInited,   \* initialized
    flThr,      \* per thread: where its Load stands, and history: what it returned
    flCrashed,  \* the runtime has ended the process on a concurrent map access
    flCount     \* history: Loads started and flags set after the parse

flVars == <<flAll, flFlags, flParsed, flMap, flInited, flThr, flCrashed, flCount>>

\* concurrent Loads of the watch-backed Etcd loader (loader_etcd.go)
VARIABLES
    elClient,   \* client is not nil: the watch task runs
    elErrs,     \* mErr: the decode errors the watch task buffered
    elReaders,  \* the threads that hold mu.RLock
    elThr,      \* per thread: where its Load stands and the err it read
    elReturned, \* history: per error, how many Loads returned it
    elCount     \* history: Loads started and errors buffered

elVars == <<elClient, elErrs, elReaders, elThr, elReturned, elCount>>

\* the lock of a Config with reload: notification, RegisterObserver and Get
\* (config.go)
VARIABLES
    nfReaders,   \* mu: how many read locks are held
    nfWriter,    \* mu: the thread that holds the write lock, or Nil
    nfPending,   \* mu: the threads that called Lock and wait for it
    nfObservers, \* len(cfg.observers)
    nfTask,      \* the reload task: where it stands
    nfReg,       \* the thread that calls RegisterObserver: where it stands
    nfGet,       \* the thread that calls Get: where it stands
    nfCount      \* history: reloads, registrations and Gets started

nfVars == <<nfReaders, nfWriter, nfPending, nfObservers, nfTask, nfReg, nfGet, nfCount>>

\* the variables of the other components, which a component's actions leave alone
notCfg == <<mlVars, fcVars, owVars, ccVars, csVars, etVars, rlVars, fkVars, gvVars, flVars, elVars, nfVars>>

notMl == <<cfgVars, fcVars, owVars, ccVars, csVars, etVars, rlVars, fkVars, gvVars, flVars, elVars, nfVars>>

notFc == <<cfgVars, mlVars, owVars, ccVars, csVars, etVars, rlVars, fkVars, gvVars, flVars, elVars, nfVars>>

notOw == <<cfgVars, mlVars, fcVars, ccVars, csVars, etVars, rlVars, fkVars, gvVars, flVars, elVars, nfVars>>

notCc == <<cfgVars, mlVars, fcVars, owVars, csVars, etVars, rlVars, fkVars, gvVars, flVars, elVars, nfVars>>

notCs == <<cfgVars, mlVars, fcVars, owVars, ccVars, etVars, rlVars, fkVars, gvVars, flVars, elVars, nfVars>>

notEt == <<cfgVars, mlVars, fcVars, owVars, ccVars, csVars, rlVars, fkVars, gvVars, flVars, elVars, nfVars>>

notRl == <<cfgVars, mlVars, fcVars, owVars, ccVars, csVars, etVars, fkVars, gvVars, flVars, elVars, nfVars>>

notFk == <<cfgVars, mlVars, fcVars, owVars, ccVars, csVars, etVars, rlVars, gvVars, flVars, elVars, nfVars>>

notGv == <<cfgVars, mlVars, fcVars, owVars, ccVars, csVars, etVars, rlVars, fkVars, flVars, elVars, nfVars>>

notFl == <<cfgVars, mlVars, fcVars, owVars, ccVars, csVars, etVars, rlVars, fkVars, gvVars, elVars, nfVars>>

notEl == <<cfgVars, mlVars, fcVars, owVars, ccVars, csVars, etVars, rlVars, fkVars, gvVars, flVars, nfVars>>

notNf == <<cfgVars, mlVars, fcVars, owVars, ccVars, csVars, etVars, rlVars, fkVars, gvVars, flVars, elVars>>

\* keys a caller may probe with Get
CfgKeys == {"a", "A", "c"}

\* the maps the loader's source goes through
CfgSourceMaps ==
    { ("a" :> "v1") @@ ("b" :> "v1"),
      ("a" :> "v2") @@ ("c" :> "v1"),
      ("a" :> "v1") @@ ("c" :> Nil),
      ("a" :> "v1"),
      ("a" :> "v1") @@ ("A" :> "v2") }

\* the errors the loader may return
CfgErrors == {"e1", "e2"}

\* identities of map objects: the installed one, the one being built and the
\* old one handed to notifyObservers
ObjIds == {"m0", "m1", "m2"}

\* identities of observers: the n-th observer registered is observer n
ObsIds == 1..MaxObservers

\* a faulty order of the statements: the map is installed before it is
\* uppercased
SetConfigMapStepsInstallFirst == <<"load", "install", "upper", "notify">>

\* The statements of setConfigMap, in program order: Load, toUppercaseConfigMap
\* on the loaded map, the swap under cfg.mu, notifyObservers.
SetConfigMapSteps == <<"load", "upper", "install", "notify">>

CurStep ==
    IF cfgRun.step \in 1..Len(SetConfigMapSteps)
    THEN SetConfigMapSteps[cfgRun.step]
    ELSE "none"

\* a map object that is neither installed nor the old map of this run
FreshObj == CHOOSE i \in ObjIds : i \notin {cfgRef, cfgRun.oldRef}

\* a faulty comparison that finds any two maps different
DeepEqualNever(x, y) == FALSE

\* reflect.DeepEqual on the values and maps of the model
DeepEqual(x, y) == x = y

\* the changed keys notifyObservers computes from the old and the new map
ChangedKeys(old, new) ==
    LET updatedOrDeleted(k) ==
            k \in DOMAIN old /\ ~DeepEqual(Lookup(old, k), Lookup(new, k))
        added(k) == k \in DOMAIN new /\ k \notin DOMAIN old
    IN  SelectSeq(KeyOrder, updatedOrDeleted) \o SelectSeq(KeyOrder, added)

\* a faulty loop: the observers are called last registered first
ObserverAtReversed(obs, i) == obs[Len(obs) + 1 - i]

\* the observer called at position i of the loop over cfg.observers
ObserverAt(obs, i) == obs[i]

\* sync.RWMutex: RLock is granted when no writer waits in Lock
CanRLock == cfgMu.pending = {}

\* sync.RWMutex: Lock is granted when no reader holds the lock
CanLock == cfgMu.readers = 0

CfgInit ==
    /\ cfgOpts \in [reload : BOOLEAN, ignoreCase : BOOLEAN, handler : BOOLEAN]
    /\ cfgPhase = "new"
    /\ cfgObjs = [i \in ObjIds |-> EmptyMap]
    /\ cfgRef = "m0"
    /\ cfgRun = [step |-> 1, who |-> "ctor", newRef |-> "m0", oldRef |-> "m0",
                 todo |-> {}, lockReq |-> FALSE]
    /\ cfgMu = [readers |-> 0, pending |-> {}]
    /\ cfgObservers = <<>>
    /\ cfgNotify = [active |-> FALSE, idx |-> 1, changed |-> <<>>]
    /\ cfgGet = [pc |-> "idle", key |-> "a", val |-> Nil, found |-> FALSE,
                 seen |-> EmptyMap]
    /\ cfgReg = [pc |-> "idle", obs |-> 1]
    /\ cfgTicks = 0
    /\ cfgCalls = <<>>
    /\ cfgHandled = [n |-> 0, last |-> "none"]
    /\ cfgErrs = [n |-> 0, last |-> "none"]
    /\ cfgBefore = EmptyMap
    /\ cfgObsAtTick = <<>>
    /\ cfgLast = "none"
    /\ cfgSnapPrev = EmptyMap
    /\ cfgSnapLast = EmptyMap

\* reloadAsync: case <-cfg.ticker.C
ReloadTick ==
    /\ cfgPhase = "ready"
    /\ UNCHANGED notCfg
    /\ cfgOpts.reload
    /\ cfgRun.step = 0
    /\ cfgTicks < MaxReloads
    /\ cfgTicks' = cfgTicks + 1
    /\ cfgRun' = [cfgRun EXCEPT !.step = 1, !.oldRef = cfgRef]
    /\ cfgBefore' = cfgObjs[cfgRef]
    /\ cfgObsAtTick' = cfgObservers
    /\ UNCHANGED <<cfgOpts, cfgPhase, cfgObjs, cfgRef, cfgMu,
                   cfgObservers, cfgNotify, cfgGet, cfgReg, cfgCalls,
                   cfgHandled, cfgErrs, cfgLast, cfgSnapPrev, cfgSnapLast>>

\* a faulty setConfigMap: on a Load error an empty map is installed before
\* the error is returned
SetLoadErrInstallsNil(e) ==
    /\ CurStep = "load"
    /\ UNCHANGED notCfg
    /\ cfgRun' = [cfgRun EXCEPT !.step = 0]
    /\ cfgRef' = FreshObj
    /\ cfgObjs' = [cfgObjs EXCEPT ![FreshObj] = EmptyMap]
    /\ IF cfgRun.who = "ctor"
       THEN /\ cfgPhase' = "failed"
            /\ UNCHANGED <<cfgHandled, cfgErrs, cfgLast>>
       ELSE /\ cfgHandled' = IF cfgOpts.handler
                             THEN [n |-> cfgHandled.n + 1, last |-> e]
                             ELSE cfgHandled
            /\ cfgErrs' = [n |-> cfgErrs.n + 1, last |-> e]
            /\ cfgLast' = "err"
            /\ UNCHANGED cfgPhase
    /\ UNCHANGED <<cfgOpts, cfgMu, cfgObservers, cfgNotify, cfgGet, cfgReg,
                   cfgTicks, cfgCalls, cfgBefore, cfgObsAtTick, cfgSnapPrev,
                   cfgSnapLast>>

\* setConfigMap: cfg.loader.Load() returns the error e.  The constructor
\* returns it; the reload task hands it to the reload-error handler, if there
\* is one.
SetLoadErr(e) ==
    /\ CurStep = "load"
    /\ UNCHANGED notCfg
    /\ cfgRun' = [cfgRun EXCEPT !.step = 0]
    /\ IF cfgRun.who = "ctor"
       THEN /\ cfgPhase' = "failed"
            /\ UNCHANGED <<cfgHandled, cfgErrs, cfgLast>>
       ELSE /\ cfgHandled' = IF cfgOpts.handler
                             THEN [n |-> cfgHandled.n + 1, last |-> e]
                             ELSE cfgHandled
            /\ cfgErrs' = [n |-> cfgErrs.n + 1, last |-> e]
            /\ cfgLast' = "err"
            /\ UNCHANGED cfgPhase
    /\ UNCHANGED <<cfgOpts, cfgObjs, cfgRef, cfgMu, cfgObservers, cfgNotify,
                   cfgGet, cfgReg, cfgTicks, cfgCalls, cfgBefore, cfgObsAtTick,
                   cfgSnapPrev, cfgSnapLast>>

\* setConfigMap: cfg.loader.Load() returns the map m, a new object owned by
\* the caller.
SetLoadOk(m) ==
    /\ CurStep = "load"
    /\ UNCHANGED notCfg
    /\ cfgObjs' = [cfgObjs EXCEPT ![FreshObj] = m]
    /\ cfgRun' = [cfgRun EXCEPT !.step = @ + 1, !.newRef = FreshObj,
                                !.todo = DOMAIN m]
    /\ UNCHANGED <<cfgOpts, cfgPhase, cfgRef, cfgMu, cfgObservers,
                   cfgNotify, cfgGet, cfgReg, cfgTicks, cfgCalls, cfgHandled,
                   cfgErrs, cfgBefore, cfgObsAtTick, cfgLast, cfgSnapPrev,
                   cfgSnapLast>>

\* toUppercaseConfigMap: one iteration of the range over the loaded map
UpperStep(k) ==
    /\ CurStep = "upper"
    /\ UNCHANGED notCfg
    /\ cfgOpts.ignoreCase
    /\ k \in cfgRun.todo
    /\ LET obj == cfgObjs[cfgRun.newRef]
       IN  cfgObjs' = [cfgObjs EXCEPT ![cfgRun.newRef] =
                          MapSet(MapDel(obj, k), ToUpper(k), obj[k])]
    /\ cfgRun' = [cfgRun EXCEPT !.todo = @ \ {k}]
    /\ UNCHANGED <<cfgOpts, cfgPhase, cfgRef, cfgMu, cfgObservers,
                   cfgNotify, cfgGet, cfgReg, cfgTicks, cfgCalls, cfgHandled,
                   cfgErrs, cfgBefore, cfgObsAtTick, cfgLast, cfgSnapPrev,
                   cfgSnapLast>>

\* setConfigMap: the loaded map has its final content (ignore-case is off, or
\* the range of toUppercaseConfigMap is over).
UpperDone ==
    /\ CurStep = "upper"
    /\ UNCHANGED notCfg
    /\ ~cfgOpts.ignoreCase \/ cfgRun.todo = {}
    /\ cfgRun' = [cfgRun EXCEPT !.step = @ + 1, !.todo = {}]
    /\ cfgSnapPrev' = cfgSnapLast
    /\ cfgSnapLast' = cfgObjs[cfgRun.newRef]
    /\ UNCHANGED <<cfgOpts, cfgPhase, cfgObjs, cfgRef, cfgMu,
                   cfgObservers, cfgNotify, cfgGet, cfgReg, cfgTicks, cfgCalls,
                   cfgHandled, cfgErrs, cfgBefore, cfgObsAtTick, cfgLast>>

\* setConfigMap: cfg.mu.Lock() is called; from now on RLock waits
SetLockReq ==
    /\ CurStep = "install"
    /\ UNCHANGED notCfg
    /\ ~cfgRun.lockReq
    /\ cfgRun' = [cfgRun EXCEPT !.lockReq = TRUE]
    /\ cfgMu' = [cfgMu EXCEPT !.pending = @ \cup {"set"}]
    /\ UNCHANGED <<cfgOpts, cfgPhase, cfgObjs, cfgRef, cfgObservers,
                   cfgNotify, cfgGet, cfgReg, cfgTicks, cfgCalls, cfgHandled,
                   cfgErrs, cfgBefore, cfgObsAtTick, cfgLast, cfgSnapPrev,
                   cfgSnapLast>>

\* setConfigMap: Lock is granted; oldConfigMap := cfg.configMap;
\* cfg.configMap = newConfigMap; Unlock
SetInstall ==
    /\ CurStep = "install"
    /\ UNCHANGED notCfg
    /\ cfgRun.lockReq
    /\ CanLock
    /\ cfgRef' = cfgRun.newRef
    /\ cfgRun' = [cfgRun EXCEPT !.step = @ + 1, !.oldRef = cfgRef,
                                !.lockReq = FALSE]
    /\ cfgMu' = [cfgMu EXCEPT !.pending = @ \ {"set"}]
    /\ UNCHANGED <<cfgOpts, cfgPhase, cfgObjs, cfgObservers,
                   cfgNotify, cfgGet, cfgReg, cfgTicks, cfgCalls, cfgHandled,
                   cfgErrs, cfgBefore, cfgObsAtTick, cfgLast, cfgSnapPrev,
                   cfgSnapLast>>

\* notifyObservers: RLock, the early return and the computation of the
\* changed keys
NotifyBegin ==
    /\ CurStep = "notify"
    /\ UNCHANGED notCfg
    /\ ~cfgNotify.active
    /\ CanRLock
    /\ cfgMu' = [cfgMu EXCEPT !.readers = @ + 1]
    /\ LET old == cfgObjs[cfgRun.oldRef]
           new == cfgObjs[cfgRun.newRef]
       IN  IF cfgObservers = <<>> \/ DeepEqual(old, new)
           THEN cfgNotify' = [active |-> TRUE, idx |-> Len(cfgObservers) + 1,
                              changed |-> <<>>]
           ELSE cfgNotify' = [active |-> TRUE, idx |-> 1,
                              changed |-> ChangedKeys(old, new)]
    /\ cfgCalls' = <<>>
    /\ UNCHANGED <<cfgOpts, cfgPhase, cfgObjs, cfgRef, cfgRun,
                   cfgObservers, cfgGet, cfgReg, cfgTicks, cfgHandled, cfgErrs,
                   cfgBefore, cfgObsAtTick, cfgLast, cfgSnapPrev, cfgSnapLast>>

\* notifyObservers: notifyObserver(cfg, changedKeys...) for the next observer
NotifyCall ==
    /\ cfgNotify.active
    /\ UNCHANGED notCfg
    /\ cfgNotify.idx <= Len(cfgObservers)
    /\ cfgCalls' = Append(cfgCalls, ObserverAt(cfgObservers, cfgNotify.idx))
    /\ cfgNotify' = [cfgNotify EXCEPT !.idx = @ + 1]
    /\ UNCHANGED <<cfgOpts, cfgPhase, cfgObjs, cfgRef, cfgRun, cfgMu,
                   cfgObservers, cfgGet, cfgReg, cfgTicks, cfgHandled, cfgErrs,
                   cfgBefore, cfgObsAtTick, cfgLast, cfgSnapPrev, cfgSnapLast>>

\* notifyObservers returns (the deferred RUnlock) and setConfigMap with it.
\* The constructor then starts the reload task if reload is enabled.
NotifyEnd ==
    /\ cfgNotify.active
    /\ UNCHANGED notCfg
    /\ cfgNotify.idx > Len(cfgObservers)
    /\ cfgMu' = [cfgMu EXCEPT !.readers = @ - 1]
    /\ cfgNotify' = [active |-> FALSE, idx |-> 1, changed |-> <<>>]
    /\ cfgRun' = [cfgRun EXCEPT !.step = 0, !.who = "reload",
                                !.oldRef = cfgRef]
    /\ cfgPhase' = "ready"
    /\ cfgLast' = IF cfgRun.who = "reload" THEN "ok" ELSE cfgLast
    /\ UNCHANGED <<cfgOpts, cfgObjs, cfgRef, cfgObservers, cfgGet,
                   cfgReg, cfgTicks, cfgCalls, cfgHandled, cfgErrs, cfgBefore,
                   cfgObsAtTick, cfgSnapPrev, cfgSnapLast>>

\* Get: the key is uppercased if ignore-case is on; RLock if reload is enabled
GetBegin(k) ==
    /\ cfgPhase = "ready"
    /\ UNCHANGED notCfg
    /\ cfgGet.pc = "idle"
    /\ cfgOpts.reload => CanRLock
    /\ cfgMu' = IF cfgOpts.reload
                THEN [cfgMu EXCEPT !.readers = @ + 1]
                ELSE cfgMu
    /\ cfgGet' = [cfgGet EXCEPT !.pc = "locked",
                    !.key = IF cfgOpts.ignoreCase THEN ToUpper(k) ELSE k]
    /\ UNCHANGED <<cfgOpts, cfgPhase, cfgObjs, cfgRef, cfgRun,
                   cfgObservers, cfgNotify, cfgReg, cfgTicks, cfgCalls,
                   cfgHandled, cfgErrs, cfgBefore, cfgObsAtTick, cfgLast,
                   cfgSnapPrev, cfgSnapLast>>

\* Get: value, foundKey := cfg.configMap[key]
GetRead ==
    /\ cfgGet.pc = "locked"
    /\ UNCHANGED notCfg
    /\ cfgGet' = [cfgGet EXCEPT !.pc = "read",
                    !.val = Lookup(cfgObjs[cfgRef], cfgGet.key),
                    !.found = cfgGet.key \in DOMAIN cfgObjs[cfgRef],
                    !.seen = cfgObjs[cfgRef]]
    /\ UNCHANGED <<cfgOpts, cfgPhase, cfgObjs, cfgRef, cfgRun, cfgMu,
                   cfgObservers, cfgNotify, cfgReg, cfgTicks, cfgCalls,
                   cfgHandled, cfgErrs, cfgBefore, cfgObsAtTick, cfgLast,
                   cfgSnapPrev, cfgSnapLast>>

\* Get: RUnlock if reload is enabled, and the value is returned
GetEnd ==
    /\ cfgGet.pc = "read"
    /\ UNCHANGED notCfg
    /\ cfgMu' = IF cfgOpts.reload
                THEN [cfgMu EXCEPT !.readers = @ - 1]
                ELSE cfgMu
    /\ cfgGet' = [pc |-> "idle", key |-> "a", val |-> Nil, found |-> FALSE,
                  seen |-> EmptyMap]
    /\ UNCHANGED <<cfgOpts, cfgPhase, cfgObjs, cfgRef, cfgRun,
                   cfgObservers, cfgNotify, cfgReg, cfgTicks, cfgCalls,
                   cfgHandled, cfgErrs, cfgBefore, cfgObsAtTick, cfgLast,
                   cfgSnapPrev, cfgSnapLast>>

\* RegisterObserver: cfg.mu.Lock() is called
RegBegin(o) ==
    /\ cfgPhase = "ready"
    /\ UNCHANGED notCfg
    /\ cfgReg.pc = "idle"
    /\ o = Len(cfgObservers) + 1
    /\ cfgReg' = [pc |-> "lock", obs |-> o]
    /\ cfgMu' = [cfgMu EXCEPT !.pending = @ \cup {"reg"}]
    /\ UNCHANGED <<cfgOpts, cfgPhase, cfgObjs, cfgRef, cfgRun,
                   cfgObservers, cfgNotify, cfgGet, cfgTicks, cfgCalls,
                   cfgHandled, cfgErrs, cfgBefore, cfgObsAtTick, cfgLast,
                   cfgSnapPrev, cfgSnapLast>>

\* RegisterObserver: Lock is granted; the observer is appended; Unlock
RegAppend ==
    /\ cfgReg.pc = "lock"
    /\ UNCHANGED notCfg
    /\ CanLock
    /\ cfgObservers' = Append(cfgObservers, cfgReg.obs)
    /\ cfgReg' = [pc |-> "idle", obs |-> 1]
    /\ cfgMu' = [cfgMu EXCEPT !.pending = @ \ {"reg"}]
    /\ UNCHANGED <<cfgOpts, cfgPhase, cfgObjs, cfgRef, cfgRun,
                   cfgNotify, cfgGet, cfgTicks, cfgCalls, cfgHandled, cfgErrs,
                   cfgBefore, cfgObsAtTick, cfgLast, cfgSnapPrev, cfgSnapLast>>

CfgNext ==
    \/ ReloadTick
    \/ \E e \in CfgErrors : SetLoadErr(e)
    \/ \E m \in CfgSourceMaps : SetLoadOk(m)
    \/ \E k \in DOMAIN cfgObjs[cfgRun.newRef] : UpperStep(k)
    \/ UpperDone
    \/ SetLockReq
    \/ SetInstall
    \/ NotifyBegin
    \/ NotifyCall
    \/ NotifyEnd
    \/ \E k \in CfgKeys : GetBegin(k)
    \/ GetRead
    \/ GetEnd
    \/ \E o \in ObsIds : RegBegin(o)
    \/ RegAppend

\* ========================================================================
\* MultiLoader (loader_multi.go)
\* ========================================================================

\* keys the children produce
MlKeys == {"a", "A", "b"}

\* a nil map
NilMap == [isNil |-> TRUE, kv |-> EmptyMap]

\* make(map[string]interface{})
MakeMap == [isNil |-> FALSE, kv |-> EmptyMap]

\* the zero loadResult of make([]loadResult, n)
ZeroResult == [err |-> FALSE, isNil |-> TRUE, kv |-> EmptyMap]

\* What child i may return: an error, a nil map without error, or a map
\* over some of the keys.  Every value of child i is i, so that a merged
\* entry tells which child it comes from.
ChildOutcomes(i) ==
    {[err |-> TRUE, isNil |-> TRUE, kv |-> EmptyMap], ZeroResult}
    \cup {[err |-> FALSE, isNil |-> FALSE, kv |-> [k \in S |-> i]] : S \in SUBSET MlKeys}

\* the error returned by child i
LoadErr(i) == [kind |-> "load", child |-> i, key |-> ""]

\* NewKeyConflictError(key)
KeyConflictError(k) == [kind |-> "conflict", child |-> 0, key |-> k]

\* the orders in which a range over a child's map may yield its keys
MlKeyOrders ==
    {o \in [1..Cardinality(MlKeys) -> MlKeys] : \A i, j \in DOMAIN o : i # j => o[i] # o[j]}

NumLoaders == Len(mlChildren)

\* a faulty loadAsync: results are appended in the order the children finish
ResultSlotByCompletion(idx, finished) == finished + 1

\* loadAsync: the slot of results written by the task of child idx, when
\* finished tasks have already written theirs
ResultSlot(idx, finished) == idx

\* a faulty merge: the key is recorded in unqKeys as it is spelled
SeenKeysCaseSensitive(unq, key) == unq \cup {key}

\* a faulty merge: the key is not recorded in unqKeys
SeenKeysForgotten(unq, key) == unq

\* unqKeys after unqKeys[strings.ToLower(key)] = struct{}{}
SeenKeys(unq, key) == unq \cup {ToLower(key)}

\* the body of the loop over one child's map: duplicate detection when
\* overwrite is not allowed, then configMap[key] = value, which panics on a
\* nil configMap
MergeKey(st, key, value) ==
    IF ~mlAllow /\ ToLower(key) \in st.unq
    THEN [st EXCEPT !.errs = Append(@, KeyConflictError(key))]
    ELSE LET st1 == IF mlAllow THEN st
                    ELSE [st EXCEPT !.unq = SeenKeys(@, key)]
         IN  IF st1.cm.isNil
             THEN [st1 EXCEPT !.panic = TRUE]
             ELSE [st1 EXCEPT !.cm.kv = MapSet(@, key, value)]

\* the loop over one child's map, its keys yielded in the order ord
RECURSIVE MergeKeys(_, _, _, _)
MergeKeys(st, kv, ord, j) ==
    IF j > Len(ord) \/ st.panic
    THEN st
    ELSE IF ord[j] \in DOMAIN kv
         THEN MergeKeys(MergeKey(st, ord[j], kv[ord[j]]), kv, ord, j + 1)
         ELSE MergeKeys(st, kv, ord, j + 1)

MlInit ==
    /\ mlAllow \in BOOLEAN
    /\ \E n \in 0..MaxLoaders :
           mlChildren \in {c \in [1..n -> UNION {ChildOutcomes(i) : i \in 1..n}] :
                              \A i \in 1..n : c[i] \in ChildOutcomes(i)}
    /\ mlResults = [i \in 1..Len(mlChildren) |-> ZeroResult]
    /\ mlDone = {}
    /\ mlOrder = <<>>
    /\ mlPc = "loading"
    /\ mlIdx = 0
    /\ mlMerge = [cm |-> NilMap, unq |-> {}, errs |-> <<>>, panic |-> FALSE]
    /\ mlRet = NilMap

\* loadAsync of child i: loader.Load(), then results[idx] = result under mu
MlLoadAsync(i) ==
    /\ mlPc = "loading"
    /\ UNCHANGED notMl
    /\ i \in 1..NumLoaders
    /\ i \notin mlDone
    /\ mlResults' = [mlResults EXCEPT ![ResultSlot(i, Cardinality(mlDone))] = mlChildren[i]]
    /\ mlDone' = mlDone \cup {i}
    /\ mlOrder' = Append(mlOrder, i)
    /\ UNCHANGED <<mlAllow, mlChildren, mlPc, mlIdx, mlMerge, mlRet>>

\* wg.Wait() returns; the base map and startIdx are chosen.  results[0] of an
\* empty slice is an index out of range.
MlWaited ==
    /\ mlPc = "loading"
    /\ UNCHANGED notMl
    /\ mlDone = 1..NumLoaders
    /\ IF mlAllow /\ NumLoaders = 0
       THEN /\ mlPc' = "panic"
            /\ UNCHANGED <<mlIdx, mlMerge>>
       ELSE /\ mlPc' = "merge"
            /\ IF mlAllow /\ ~mlResults[1].err
               THEN /\ mlMerge' = [mlMerge EXCEPT !.cm =
                           [isNil |-> mlResults[1].isNil, kv |-> mlResults[1].kv]]
                    /\ mlIdx' = 2
               ELSE /\ mlMerge' = [mlMerge EXCEPT !.cm = MakeMap]
                    /\ mlIdx' = 1
    /\ UNCHANGED <<mlAllow, mlChildren, mlResults, mlDone, mlOrder, mlRet>>

\* one iteration of the merge loop: the error of results[idx] is added to
\* mErr, or its map is merged
MlMergeChild(ord) ==
    /\ mlPc = "merge"
    /\ UNCHANGED notMl
    /\ mlIdx <= NumLoaders
    /\ LET res == mlResults[mlIdx]
           st == IF res.err
                 THEN [mlMerge EXCEPT !.errs = Append(@, LoadErr(mlIdx))]
                 ELSE MergeKeys(mlMerge, res.kv, ord, 1)
       IN  /\ mlMerge' = st
           /\ mlPc' = IF st.panic THEN "panic" ELSE "merge"
    /\ mlIdx' = mlIdx + 1
    /\ UNCHANGED <<mlAllow, mlChildren, mlResults, mlDone, mlOrder, mlRet>>

\* Load returns (nil, mErr) if mErr holds an error, (configMap, nil) otherwise
MlReturn ==
    /\ mlPc = "merge"
    /\ UNCHANGED notMl
    /\ mlIdx > NumLoaders
    /\ mlPc' = "returned"
    /\ mlRet' = IF mlMerge.errs # <<>> THEN NilMap ELSE mlMerge.cm
    /\ UNCHANGED <<mlAllow, mlChildren, mlResults, mlDone, mlOrder, mlIdx, mlMerge>>

MlNext ==
    \/ \E i \in 1..NumLoaders : MlLoadAsync(i)
    \/ MlWaited
    \/ \E ord \in MlKeyOrders : MlMergeChild(ord)
    \/ MlReturn

\* ========================================================================
\* FileCacheLoader (loader_decorator_filecache_loader.go)
\* ========================================================================

\* what the file may hold
FcContents == {"v1", "v2", "null", "bad"}

\* the decorated file loader's Load on a file with content c fails
ParseFails(c) == c = "bad"

\* the map the decorated file loader decodes from content c ("null" decodes
\* to a nil map without error)
Parse(c) ==
    CASE c = "v1" -> [isNil |-> FALSE, kv |-> ("k" :> 1)]
      [] c = "v2" -> [isNil |-> FALSE, kv |-> ("k" :> 2) @@ ("j" :> 2)]
      [] OTHER -> NilMap

\* DeepCopyConfigMap on maps of scalars: make(map) filled with the entries
DeepCopyValue(m) == [isNil |-> FALSE, kv |-> m.kv]

\* a faulty comparison: an equal time counts as later
AfterOrSame(a, b) == a >= b

\* time.Time.After
After(a, b) == a > b

\* cache.load: a copy of the cached map unless the file is newer, else nil
CacheLoad(cache, currentLastModified) ==
    IF ~After(currentLastModified, cache.lastModified)
    THEN DeepCopyValue(cache.configMap)
    ELSE NilMap

\* a faulty save: lastModified is not stored
SavedModTimeKept(old, lastModified) == old

\* cache.lastModified after save
SavedModTime(old, lastModified) == lastModified

\* a Load not yet made
NoLoad ==
    [n |-> 0, statT |-> 0, cachedT |-> 0, calls |-> 0, err |-> FALSE,
     loaded |-> NilMap, ret |-> NilMap]

FcInit ==
    /\ fcFile \in [exists : {TRUE}, modTime : 1..MaxModTime, content : FcContents]
    /\ fcCache = [configMap |-> NilMap, lastModified |-> 0]
    /\ fcPc = "idle"
    /\ fcLocal = [fModifiedAt |-> 0, configMap |-> NilMap]
    /\ fcLoads = 0
    /\ fcWrites = 0
    /\ fcChildCalls = 0
    /\ fcCur = NoLoad
    /\ fcFill = [n |-> 0, first |-> FALSE, t |-> 0, map |-> NilMap, calls |-> 0]
    /\ fcStable = FALSE

\* Load, os.Stat: a failure is returned, else fModifiedAt is taken
FcStat ==
    /\ fcPc = "idle"
    /\ UNCHANGED notFc
    /\ fcLoads < MaxFcLoads
    /\ fcLoads' = fcLoads + 1
    /\ IF ~fcFile.exists
       THEN /\ fcCur' = [NoLoad EXCEPT !.n = fcLoads + 1,
                                       !.cachedT = fcCache.lastModified,
                                       !.err = TRUE]
            /\ UNCHANGED <<fcPc, fcLocal>>
       ELSE /\ fcCur' = [NoLoad EXCEPT !.n = fcLoads + 1,
                                       !.cachedT = fcCache.lastModified,
                                       !.statT = fcFile.modTime]
            /\ fcLocal' = [fModifiedAt |-> fcFile.modTime, configMap |-> NilMap]
            /\ fcPc' = "cache"
    /\ UNCHANGED <<fcFile, fcCache, fcWrites, fcChildCalls, fcFill, fcStable>>

\* Load, decorator.cache.load(fModifiedAt): a non-nil map is returned
FcCacheLoad ==
    /\ fcPc = "cache"
    /\ UNCHANGED notFc
    /\ LET configMap == CacheLoad(fcCache, fcLocal.fModifiedAt)
       IN  IF ~configMap.isNil
           THEN /\ fcCur' = [fcCur EXCEPT !.ret = configMap]
                /\ fcPc' = "idle"
           ELSE /\ fcPc' = "child"
                /\ UNCHANGED fcCur
    /\ UNCHANGED <<fcFile, fcCache, fcLocal, fcLoads, fcWrites, fcChildCalls,
                   fcFill, fcStable>>

\* Load, decorator.loader.Load(): the file is read as it is now; an error is
\* returned with the map the decorated loader gave
FcChildLoad ==
    /\ fcPc = "child"
    /\ UNCHANGED notFc
    /\ fcChildCalls' = fcChildCalls + 1
    /\ IF ~fcFile.exists \/ ParseFails(fcFile.content)
       THEN /\ fcCur' = [fcCur EXCEPT !.calls = @ + 1, !.err = TRUE]
            /\ fcPc' = "idle"
            /\ UNCHANGED fcLocal
       ELSE /\ fcCur' = [fcCur EXCEPT !.calls = @ + 1,
                                      !.loaded = Parse(fcFile.content)]
            /\ fcLocal' = [fcLocal EXCEPT !.configMap = Parse(fcFile.content)]
            /\ fcPc' = "save"
    /\ UNCHANGED <<fcFile, fcCache, fcLoads, fcWrites, fcFill, fcStable>>

\* Load, decorator.cache.save(configMap, fModifiedAt), and the return of
\* configMap
FcSave ==
    /\ fcPc = "save"
    /\ UNCHANGED notFc
    /\ fcCache' = [configMap |-> DeepCopyValue(fcLocal.configMap),
                   lastModified |-> SavedModTime(fcCache.lastModified,
                                                 fcLocal.fModifiedAt)]
    /\ fcCur' = [fcCur EXCEPT !.ret = fcLocal.configMap]
    /\ fcFill' = [n |-> fcCur.n, first |-> fcFill.n = 0,
                  t |-> fcLocal.fModifiedAt, map |-> fcLocal.configMap,
                  calls |-> fcChildCalls]
    /\ fcStable' = (fcFile.exists /\ fcFile.modTime = fcLocal.fModifiedAt)
    /\ fcPc' = "idle"
    /\ UNCHANGED <<fcFile, fcLocal, fcLoads, fcWrites, fcChildCalls>>

\* the file is written: new content, and a modification time, which a
\* writer may also set to the same or to an earlier one (coarse clock, touch)
FcWrite(c, t) ==
    /\ fcWrites < MaxWrites
    /\ UNCHANGED notFc
    /\ fcWrites' = fcWrites + 1
    /\ fcFile' = [exists |-> TRUE, modTime |-> t, content |-> c]
    /\ fcStable' = (fcStable /\ fcFile.exists /\ t = fcFile.modTime)
    /\ UNCHANGED <<fcCache, fcPc, fcLocal, fcLoads, fcChildCalls, fcCur, fcFill>>

\* the file is removed
FcRemove ==
    /\ fcWrites < MaxWrites
    /\ UNCHANGED notFc
    /\ fcFile.exists
    /\ fcWrites' = fcWrites + 1
    /\ fcFile' = [fcFile EXCEPT !.exists = FALSE]
    /\ fcStable' = FALSE
    /\ UNCHANGED <<fcCache, fcPc, fcLocal, fcLoads, fcChildCalls, fcCur, fcFill>>

FcNext ==
    \/ FcStat
    \/ FcCacheLoad
    \/ FcChildLoad
    \/ FcSave
    \/ \E c \in FcContents, t \in 1..MaxModTime : FcWrite(c, t)
    \/ FcRemove

\* ========================================================================
\* Ownership of the maps a Load returns (deepcopy.go, loader_plain.go,
\* loader_decorator_filecache_loader.go, loader_multi.go)
\* ========================================================================

\* A value as data: a scalar, or a container of values.  The kinds are
\* "map" (map[string]interface{}), "imap" (map[interface{}]interface{}),
\* "list" ([]interface{}) and "flat" ([]string, []int); a scalar stands for
\* every value DeepCopyConfigMap carries over as it is.
Scalar(n) == [kind |-> "scalar", val |-> n, items |-> EmptyMap]

Node(kind, items) == [kind |-> kind, val |-> 0, items |-> items]

\* the map the user gives to PlainLoader
PlainTree ==
    Node("map", ("s" :> Scalar(2))
             @@ ("p" :> Node("map", ("l" :> Node("flat", ("0" :> Scalar(1)))))))

\* the map the file loader decodes
FileTree ==
    Node("map", ("f" :> Node("list", ("0" :> Node("imap", ("y" :> Scalar(3)))))))

\* the modification time os.Stat reports for the file
FileModTime == 1

\* an item of a container in the heap: a scalar, or the reference of a container
ItemScalar(n) == [ref |-> FALSE, v |-> n]

ItemRef(r) == [ref |-> TRUE, v |-> r]

\* a value decoded or built into the heap: fresh containers for the value
\* and for every container inside it
RECURSIVE Store(_, _), StoreItems(_, _, _, _)
Store(heap, tree) ==
    LET r == StoreItems(heap, tree.items, DOMAIN tree.items, EmptyMap)
    IN  [heap |-> Append(r.heap, [kind |-> tree.kind, items |-> r.items]),
         ref |-> Len(r.heap) + 1]

StoreItems(heap, items, keys, acc) ==
    IF keys = {}
    THEN [heap |-> heap, items |-> acc]
    ELSE LET k == CHOOSE x \in keys : TRUE
         IN  IF items[k].kind = "scalar"
             THEN StoreItems(heap, items, keys \ {k},
                             acc @@ (k :> ItemScalar(items[k].val)))
             ELSE LET r == Store(heap, items[k])
                  IN  StoreItems(r.heap, items, keys \ {k},
                                 acc @@ (k :> ItemRef(r.ref)))

\* DeepCopyConfigMap, deepCopyInterfaceMap, deepCopyInterfaceSlice and the
\* copy of a []string or []int: a fresh container; an item that is one of
\* the recognised containers is copied in turn, any other item is assigned
\* as it is.  DeepCopyConfigMap(nil) is an empty map.
RECURSIVE DeepCopyConfigMap(_, _), DeepCopyItems(_, _, _, _)
DeepCopyConfigMap(heap, src) ==
    IF src = 0
    THEN [heap |-> Append(heap, [kind |-> "map", items |-> EmptyMap]),
          ref |-> Len(heap) + 1]
    ELSE LET r == DeepCopyItems(heap, heap[src].items, DOMAIN heap[src].items,
                                EmptyMap)
         IN  [heap |-> Append(r.heap, [kind |-> heap[src].kind, items |-> r.items]),
              ref |-> Len(r.heap) + 1]

DeepCopyItems(heap, items, keys, acc) ==
    IF keys = {}
    THEN [heap |-> heap, items |-> acc]
    ELSE LET k == CHOOSE x \in keys : TRUE
         IN  IF items[k].ref
             THEN LET r == DeepCopyConfigMap(heap, items[k].v)
                  IN  DeepCopyItems(r.heap, items, keys \ {k},
                                    acc @@ (k :> ItemRef(r.ref)))
             ELSE DeepCopyItems(heap, items, keys \ {k}, acc @@ (k :> items[k]))

\* the value a reference stands for
RECURSIVE DeepValue(_, _)
DeepValue(heap, r) ==
    Node(heap[r].kind,
         [k \in DOMAIN heap[r].items |->
             IF heap[r].items[k].ref
             THEN DeepValue(heap, heap[r].items[k].v)
             ELSE Scalar(heap[r].items[k].v)])

\* the containers one can get to from a reference
RECURSIVE Reach(_, _)
Reach(heap, r) ==
    {r} \cup UNION {Reach(heap, heap[r].items[k].v) :
                       k \in {x \in DOMAIN heap[r].items : heap[r].items[x].ref}}

\* the containers callers can get to: through the maps returned to them and
\* through the map the user built the PlainLoader with
CallerCells == UNION {Reach(owHeap, r) : r \in owReturned \cup {owUser}}

\* a faulty save: the map is stored without being copied
CacheSaveByReference(heap, configMap) == [heap |-> heap, ref |-> configMap]

\* fileCache.save: cache.configMap = DeepCopyConfigMap(configMap)
CacheSave(heap, configMap) == DeepCopyConfigMap(heap, configMap)

\* PlainLoader's Load: a copy of configMapCopy
LoadPlain(heap) ==
    LET r == DeepCopyConfigMap(heap, owPlain)
    IN  [heap |-> r.heap, ref |-> r.ref, err |-> FALSE, cache |-> owCache]

\* FileCacheLoader's Load: a copy of the cached map unless the file is
\* newer than the cache; else the file loader's map, a copy of which is saved
LoadFileCache(heap) ==
    IF ~After(FileModTime, owCache.lastModified)
    THEN LET r == DeepCopyConfigMap(heap, owCache.configMap)
         IN  [heap |-> r.heap, ref |-> r.ref, err |-> FALSE, cache |-> owCache]
    ELSE LET c == Store(heap, FileTree)
             s == CacheSave(c.heap, c.ref)
         IN  [heap |-> s.heap, ref |-> c.ref, err |-> FALSE,
              cache |-> [configMap |-> s.ref, lastModified |-> FileModTime]]

\* the items of a map after configMap[key] = value for every entry of from
MergedItems(into, from) ==
    [k \in DOMAIN into \cup DOMAIN from |->
        IF k \in DOMAIN from THEN from[k] ELSE into[k]]

\* MultiLoader's Load over the PlainLoader and the FileCacheLoader: with
\* allowKeyOverwrite the first child's map is the base, else a new map is;
\* the children's entries are assigned into it; a duplicate key, overwrite
\* not being allowed, is an error
LoadMulti(heap) ==
    LET p == LoadPlain(heap)
        f == LoadFileCache(p.heap)
        pItems == f.heap[p.ref].items
        fItems == f.heap[f.ref].items
    IN  IF owAllow
        THEN [heap |-> [f.heap EXCEPT ![p.ref].items = MergedItems(pItems, fItems)],
              ref |-> p.ref, err |-> FALSE, cache |-> f.cache]
        ELSE IF {ToLower(k) : k \in DOMAIN pItems} \cap {ToLower(k) : k \in DOMAIN fItems} # {}
             THEN [heap |-> f.heap, ref |-> 0, err |-> TRUE, cache |-> f.cache]
             ELSE [heap |-> Append(f.heap, [kind |-> "map",
                                           items |-> MergedItems(pItems, fItems)]),
                   ref |-> Len(f.heap) + 1, err |-> FALSE, cache |-> f.cache]

\* the loaders of the composition
OwLoaders == {"plain", "fcache", "multi"}

LoadOf(l, heap) ==
    CASE l = "plain" -> LoadPlain(heap)
      [] l = "fcache" -> LoadFileCache(heap)
      [] OTHER -> LoadMulti(heap)

\* the keys and indexes of the containers, and a key none of them holds
OwKeys == {"s", "p", "l", "f", "y", "0", "z"}

NewKey == "z"

\* the scalar callers assign
Scribble == 9

\* construction: the user's map, PlainLoader's copy of it, an empty cache
OwInit ==
    /\ owAllow \in BOOLEAN
    /\ LET u == Store(<<>>, PlainTree)
           c == DeepCopyConfigMap(u.heap, u.ref)
       IN  /\ owHeap = c.heap
           /\ owUser = u.ref
           /\ owPlain = c.ref
    /\ owCache = [configMap |-> 0, lastModified |-> 0]
    /\ owReturned = {}
    /\ owLast = [loader |-> "none", value |-> Scalar(0), err |-> FALSE, touched |-> {}]
    /\ owLoads = 0
    /\ owTouched = {}
    /\ owChanges = 0

\* a caller calls Load on loader l and keeps the returned map
OwLoad(l) ==
    /\ owLoads < MaxOwLoads
    /\ UNCHANGED notOw
    /\ LET r == LoadOf(l, owHeap)
       IN  /\ owHeap' = r.heap
           /\ owCache' = r.cache
           /\ owReturned' = IF r.err THEN owReturned ELSE owReturned \cup {r.ref}
           /\ owLast' = [loader |-> l,
                         value |-> IF r.err THEN Scalar(0) ELSE DeepValue(r.heap, r.ref),
                         err |-> r.err,
                         touched |-> owTouched]
    /\ owLoads' = owLoads + 1
    /\ UNCHANGED <<owAllow, owUser, owPlain, owTouched, owChanges>>

\* a caller assigns a scalar to key k of a container it can get to: to a
\* key the container holds (a nested container is then replaced) or to a new
\* key
OwAssign(c, k) ==
    /\ owChanges < MaxMutations
    /\ UNCHANGED notOw
    /\ c \in CallerCells
    /\ k \in DOMAIN owHeap[c].items \cup {NewKey}
    /\ owHeap' = [owHeap EXCEPT ![c].items = MapSet(@, k, ItemScalar(Scribble))]
    /\ owTouched' = owTouched \cup {c}
    /\ owChanges' = owChanges + 1
    /\ UNCHANGED <<owAllow, owUser, owPlain, owCache, owReturned, owLast, owLoads>>

\* a caller deletes key k of a container it can get to
OwDelete(c, k) ==
    /\ owChanges < MaxMutations
    /\ UNCHANGED notOw
    /\ c \in CallerCells
    /\ k \in DOMAIN owHeap[c].items
    /\ owHeap' = [owHeap EXCEPT ![c].items = MapDel(@, k)]
    /\ owTouched' = owTouched \cup {c}
    /\ owChanges' = owChanges + 1
    /\ UNCHANGED <<owAllow, owUser, owPlain, owCache, owReturned, owLast, owLoads>>

OwNext ==
    \/ \E l \in OwLoaders : OwLoad(l)
    \/ \E c \in 1..Len(owHeap), k \in OwKeys : OwAssign(c, k)
    \/ \E c \in 1..Len(owHeap), k \in OwKeys : OwDelete(c, k)

\* ========================================================================
\* FileCacheLoader under concurrent Loads
\* (loader_decorator_filecache_loader.go)
\* ========================================================================

\* the threads calling Load
CcThreads == {"t1", "t2"}

\* the maps the cache may refer to
CcRefs == {"o1", "o2"}

\* what the writer may put in the file
CcContents == {"v1", "v2", "bad"}

\* a thread outside Load
CcIdle ==
    [pc |-> "idle", fModifiedAt |-> 0, src |-> Nil, todo |-> {},
     configMap |-> NilMap, ret |-> NilMap, err |-> FALSE, hit |-> FALSE,
     done |-> FALSE]

CcInit ==
    /\ ccFile \in [modTime : 1..MaxModTime, content : {"v1", "v2"}]
    /\ ccCache = [configMap |-> Nil, lastModified |-> 0]
    /\ ccObjs = [o \in CcRefs |-> NilMap]
    /\ ccMu = {}
    /\ ccThr = [t \in CcThreads |-> CcIdle]
    /\ ccLoads = 0
    /\ ccWrites = 0
    /\ ccChildMaps = {}

\* Load, os.Stat: fModifiedAt is taken
CcStat(t) ==
    /\ ccThr[t].pc = "idle"
    /\ UNCHANGED notCc
    /\ ccLoads < MaxCcLoads
    /\ ccLoads' = ccLoads + 1
    /\ ccThr' = [ccThr EXCEPT ![t] = [CcIdle EXCEPT !.pc = "cache",
                                                    !.fModifiedAt = ccFile.modTime]]
    /\ UNCHANGED <<ccFile, ccCache, ccObjs, ccMu, ccWrites, ccChildMaps>>

\* cache.load: RLock; when the file is not newer than the cache the copy of
\* cache.configMap begins, else RUnlock and nil
CcCacheLoad(t) ==
    /\ ccThr[t].pc = "cache"
    /\ UNCHANGED notCc
    /\ IF ~After(ccThr[t].fModifiedAt, ccCache.lastModified)
       THEN /\ ccMu' = ccMu \cup {t}
            /\ ccThr' = [ccThr EXCEPT ![t].pc = "copy",
                                      ![t].src = ccCache.configMap,
                                      ![t].todo = IF ccCache.configMap = Nil THEN {}
                                                  ELSE DOMAIN ccObjs[ccCache.configMap].kv,
                                      ![t].configMap = MakeMap]
       ELSE /\ ccThr' = [ccThr EXCEPT ![t].pc = "child"]
            /\ UNCHANGED ccMu
    /\ UNCHANGED <<ccFile, ccCache, ccObjs, ccLoads, ccWrites, ccChildMaps>>

\* DeepCopyConfigMap in cache.load: one entry of the cached map is copied
CcCopyKey(t, k) ==
    /\ ccThr[t].pc = "copy"
    /\ UNCHANGED notCc
    /\ k \in ccThr[t].todo
    /\ ccThr' = [ccThr EXCEPT
           ![t].todo = @ \ {k},
           ![t].configMap.kv =
               IF k \in DOMAIN ccObjs[ccThr[t].src].kv
               THEN MapSet(@, k, ccObjs[ccThr[t].src].kv[k])
               ELSE @]
    /\ UNCHANGED <<ccFile, ccCache, ccObjs, ccMu, ccLoads, ccWrites, ccChildMaps>>

\* cache.load returns the copy, RUnlock; Load returns it
CcCopyDone(t) ==
    /\ ccThr[t].pc = "copy"
    /\ UNCHANGED notCc
    /\ ccThr[t].todo = {}
    /\ ccMu' = ccMu \ {t}
    /\ ccThr' = [ccThr EXCEPT ![t].pc = "idle", ![t].ret = ccThr[t].configMap,
                              ![t].hit = TRUE, ![t].done = TRUE]
    /\ UNCHANGED <<ccFile, ccCache, ccObjs, ccLoads, ccWrites, ccChildMaps>>

\* decorator.loader.Load(): the file is read as it is now; an error is returned
CcChildLoad(t) ==
    /\ ccThr[t].pc = "child"
    /\ UNCHANGED notCc
    /\ IF ParseFails(ccFile.content)
       THEN /\ ccThr' = [ccThr EXCEPT ![t].pc = "idle", ![t].err = TRUE,
                                      ![t].done = TRUE]
            /\ UNCHANGED ccChildMaps
       ELSE /\ ccThr' = [ccThr EXCEPT ![t].pc = "save",
                                      ![t].configMap = Parse(ccFile.content)]
            /\ ccChildMaps' = ccChildMaps \cup {Parse(ccFile.content).kv}
    /\ UNCHANGED <<ccFile, ccCache, ccObjs, ccMu, ccLoads, ccWrites>>

\* a faulty save: the cached map is overwritten where it is, without cache.mu
CcSaveInPlace(t) ==
    /\ ccThr[t].pc = "save"
    /\ UNCHANGED notCc
    /\ LET r == IF ccCache.configMap = Nil THEN "o1" ELSE ccCache.configMap
       IN  /\ ccObjs' = [ccObjs EXCEPT ![r] = DeepCopyValue(ccThr[t].configMap)]
           /\ ccCache' = [configMap |-> r, lastModified |-> ccThr[t].fModifiedAt]
    /\ ccThr' = [ccThr EXCEPT ![t].pc = "idle", ![t].ret = ccThr[t].configMap,
                              ![t].done = TRUE]
    /\ UNCHANGED <<ccFile, ccMu, ccLoads, ccWrites, ccChildMaps>>

\* cache.save under Lock (no thread holds RLock): cache.configMap becomes a
\* new copy of configMap, cache.lastModified becomes fModifiedAt; Unlock;
\* Load returns configMap
CcSave(t) ==
    /\ ccThr[t].pc = "save"
    /\ UNCHANGED notCc
    /\ ccMu = {}
    /\ LET r == CHOOSE o \in CcRefs : o # ccCache.configMap
       IN  /\ ccObjs' = [o \in CcRefs |->
                            IF o = r THEN DeepCopyValue(ccThr[t].configMap) ELSE NilMap]
           /\ ccCache' = [configMap |-> r, lastModified |-> ccThr[t].fModifiedAt]
    /\ ccThr' = [ccThr EXCEPT ![t].pc = "idle", ![t].ret = ccThr[t].configMap,
                              ![t].done = TRUE]
    /\ UNCHANGED <<ccFile, ccMu, ccLoads, ccWrites, ccChildMaps>>

\* the writer changes the file: new content, and a modification time not
\* before the one the file has
CcWrite(c, m) ==
    /\ ccWrites < MaxCcWrites
    /\ UNCHANGED notCc
    /\ m >= ccFile.modTime
    /\ ccWrites' = ccWrites + 1
    /\ ccFile' = [modTime |-> m, content |-> c]
    /\ UNCHANGED <<ccCache, ccObjs, ccMu, ccThr, ccLoads, ccChildMaps>>

CcNext ==
    \/ \E t \in CcThreads : CcStat(t)
    \/ \E t \in CcThreads : CcCacheLoad(t)
    \/ \E t \in CcThreads, k \in {"k", "j"} : CcCopyKey(t, k)
    \/ \E t \in CcThreads : CcCopyDone(t)
    \/ \E t \in CcThreads : CcChildLoad(t)
    \/ \E t \in CcThreads : CcSave(t)
    \/ \E c \in CcContents, m \in 1..MaxModTime : CcWrite(c, m)

\* ========================================================================
\* ConsulLoader with its cache (loader_consul.go)
\* ========================================================================

\* the keys the server may hold under the loaded prefix
CsKeys == {"a", "b"}

\* the Values a key may hold: two documents, the JSON null, bytes that are
\* no document of the format, and text that is no base-64
CsValues == {"ok1", "ok2", "null", "badfmt", "badb64"}

RemoteValuePlain == "plain"

RemoteValueJSON == "json"

\* a nil map[string]int64
NoVersionIDs == [k \in {} |-> 0]

\* the response body: the pairs of the server, ordered by key
KvPairs(server) ==
    LET keys == SelectSeq(KeyOrder, LAMBDA k : k \in DOMAIN server)
    IN  [i \in 1..Len(keys) |->
            [Key |-> keys[i], ModifyIndex |-> server[keys[i]].ModifyIndex,
             Value |-> server[keys[i]].Value]]

\* base64.StdEncoding.DecodeString fails
Base64Fails(v) == v = "badb64"

\* getRemoteKVPairConfigMap fails: the value is no document of the format
\* (a plain value is never refused)
RemoteValueFails(v, format) == format = RemoteValueJSON /\ v = "badfmt"

\* getRemoteKVPairConfigMap: a plain value is stored under the pair's key, a
\* JSON document is unmarshalled into a nil map (null leaves it nil)
GetRemoteKVPairConfigMap(key, v, format) ==
    IF format = RemoteValuePlain
    THEN [isNil |-> FALSE, kv |-> (key :> v)]
    ELSE CASE v = "ok1" -> [isNil |-> FALSE, kv |-> ("x" :> "1")]
           [] v = "ok2" -> [isNil |-> FALSE, kv |-> ("x" :> "2") @@ ("y" :> "2")]
           [] OTHER -> NilMap

\* cache.versionIDs[key]: a key the map does not hold reads as 0
VersionID(versionIDs, key) ==
    IF key \in DOMAIN versionIDs THEN versionIDs[key] ELSE 0

\* a faulty cache test that compares the number of keys only
ConsulCacheHitByLength(cache, kvPairs) ==
    /\ cache.on
    /\ Len(kvPairs) # 0
    /\ Len(kvPairs) = Cardinality(DOMAIN cache.versionIDs)

\* consulCache.load returns a map: the cache is enabled, the response is not
\* empty, holds as many pairs as versionIDs, and every pair's ModifyIndex is
\* the one stored under its key
ConsulCacheHit(cache, kvPairs) ==
    /\ cache.on
    /\ Len(kvPairs) # 0
    /\ Len(kvPairs) = Cardinality(DOMAIN cache.versionIDs)
    /\ \A i \in 1..Len(kvPairs) :
           kvPairs[i].ModifyIndex = VersionID(cache.versionIDs, kvPairs[i].Key)

\* consulCache.save: a deep copy of configMap and the gathered versionIDs
\* (nothing without a cache)
ConsulCacheSave(cache, configMap, versionIDs) ==
    IF cache.on
    THEN [cache EXCEPT !.configMap = DeepCopyValue(configMap),
                       !.versionIDs = versionIDs]
    ELSE cache

\* the loop of kvPairsLoad from pair idx on: decode the base-64, decode the
\* format, take the first map as it is and merge the others into it key by
\* key (an assignment into a nil map panics), gather the ModifyIndex
RECURSIVE DecodePairs(_, _, _, _, _, _, _)
DecodePairs(kvPairs, idx, configMap, versionIDs, format, on, decodes) ==
    IF idx > Len(kvPairs)
    THEN [err |-> FALSE, panic |-> FALSE, configMap |-> configMap,
          versionIDs |-> versionIDs, decodes |-> decodes]
    ELSE LET kvPair == kvPairs[idx]
             cur == GetRemoteKVPairConfigMap(kvPair.Key, kvPair.Value, format)
             ids == IF on
                    THEN [k \in DOMAIN versionIDs \cup {kvPair.Key} |->
                            IF k = kvPair.Key THEN kvPair.ModifyIndex
                            ELSE versionIDs[k]]
                    ELSE versionIDs
         IN  IF Base64Fails(kvPair.Value) \/ RemoteValueFails(kvPair.Value, format)
             THEN [err |-> TRUE, panic |-> FALSE, configMap |-> NilMap,
                   versionIDs |-> versionIDs, decodes |-> decodes + 1]
             ELSE IF idx = 1
             THEN DecodePairs(kvPairs, idx + 1, cur, ids, format, on, decodes + 1)
             ELSE IF configMap.isNil /\ DOMAIN cur.kv # {}
             THEN [err |-> FALSE, panic |-> TRUE, configMap |-> NilMap,
                   versionIDs |-> versionIDs, decodes |-> decodes + 1]
             ELSE DecodePairs(kvPairs, idx + 1,
                              [configMap EXCEPT !.kv = cur.kv @@ configMap.kv],
                              ids, format, on, decodes + 1)

\* a faulty kvPairsLoad that decodes the pairs before it consults the cache
KvPairsLoadDecodeFirst(cache, kvPairs, format) ==
    LET d == DecodePairs(kvPairs, 1, NilMap, NoVersionIDs, format, cache.on, 0)
    IN  IF d.err \/ d.panic
        THEN [hit |-> FALSE, err |-> d.err, panic |-> d.panic, ret |-> NilMap,
              decodes |-> d.decodes, cache |-> cache, saved |-> FALSE]
        ELSE IF ConsulCacheHit(cache, kvPairs)
        THEN [hit |-> TRUE, err |-> FALSE, panic |-> FALSE,
              ret |-> DeepCopyValue(cache.configMap), decodes |-> d.decodes,
              cache |-> cache, saved |-> FALSE]
        ELSE [hit |-> FALSE, err |-> FALSE, panic |-> FALSE, ret |-> d.configMap,
              decodes |-> d.decodes,
              cache |-> ConsulCacheSave(cache, d.configMap, d.versionIDs),
              saved |-> cache.on]

\* a faulty kvPairsLoad that saves what it gathered before a Value failed
\* to decode
KvPairsLoadSavesOnError(cache, kvPairs, format) ==
    IF ConsulCacheHit(cache, kvPairs)
    THEN [hit |-> TRUE, err |-> FALSE, panic |-> FALSE,
          ret |-> DeepCopyValue(cache.configMap), decodes |-> 0,
          cache |-> cache, saved |-> FALSE]
    ELSE LET d == DecodePairs(kvPairs, 1, NilMap, NoVersionIDs, format, cache.on, 0)
         IN  IF d.err \/ d.panic
             THEN [hit |-> FALSE, err |-> d.err, panic |-> d.panic, ret |-> NilMap,
                   decodes |-> d.decodes,
                   cache |-> ConsulCacheSave(cache, d.configMap, d.versionIDs),
                   saved |-> FALSE]
             ELSE [hit |-> FALSE, err |-> FALSE, panic |-> FALSE,
                   ret |-> d.configMap, decodes |-> d.decodes,
                   cache |-> ConsulCacheSave(cache, d.configMap, d.versionIDs),
                   saved |-> cache.on]

\* kvPairsLoad: a copy of the cached map when cache.load gives one, else the
\* decoded pairs, saved to the cache; an error or a panic leaves the cache
\* as it was
KvPairsLoad(cache, kvPairs, format) ==
    IF ConsulCacheHit(cache, kvPairs)
    THEN [hit |-> TRUE, err |-> FALSE, panic |-> FALSE,
          ret |-> DeepCopyValue(cache.configMap), decodes |-> 0,
          cache |-> cache, saved |-> FALSE]
    ELSE LET d == DecodePairs(kvPairs, 1, NilMap, NoVersionIDs, format, cache.on, 0)
         IN  IF d.err \/ d.panic
             THEN [hit |-> FALSE, err |-> d.err, panic |-> d.panic, ret |-> NilMap,
                   decodes |-> d.decodes, cache |-> cache, saved |-> FALSE]
             ELSE [hit |-> FALSE, err |-> FALSE, panic |-> FALSE,
                   ret |-> d.configMap, decodes |-> d.decodes,
                   cache |-> ConsulCacheSave(cache, d.configMap, d.versionIDs),
                   saved |-> cache.on]

\* the ModifyIndex of every key of a response
ReturnedIDs(kvPairs) ==
    [k \in {kvPairs[i].Key : i \in 1..Len(kvPairs)} |->
        kvPairs[CHOOSE i \in 1..Len(kvPairs) : kvPairs[i].Key = k].ModifyIndex]

\* the cache of a loader before any Load
NoCache == [configMap |-> NilMap, versionIDs |-> NoVersionIDs]

\* the last Load failed in decoding a pair of the response
CsDecodeFailed == csLast.kind = "pairs" /\ csLast.err

\* the entry the cache holds
CsEntry == [configMap |-> csCache.configMap, versionIDs |-> csCache.versionIDs]

\* no Load was made yet (cacheBefore is the entry a Load that failed in
\* decoding found in the cache; prevDecodeErr and prevCache tell the same
\* of the Load before the last)
CsNoLoad ==
    [kind |-> "none", hit |-> FALSE, err |-> FALSE, panic |-> FALSE,
     ret |-> NilMap, decodes |-> 0, returned |-> NoVersionIDs,
     corrupt |-> FALSE, before |-> NoVersionIDs,
     cacheBefore |-> NoCache, prevDecodeErr |-> FALSE, prevCache |-> NoCache]

\* the loader is built for one of the formats, with or without the cache,
\* over a server holding one key or two, each at its first ModifyIndex
CsInit ==
    /\ \E keys \in SUBSET CsKeys \ {{}} :
           csServer \in [keys -> [ModifyIndex : {1}, Value : {"ok1"}]]
    /\ csFormat \in {RemoteValuePlain, RemoteValueJSON}
    /\ \E on \in BOOLEAN :
           csCache = [on |-> on, configMap |-> NilMap, versionIDs |-> NoVersionIDs]
    /\ csLast = CsNoLoad
    /\ csFill = NilMap
    /\ csLoads = 0
    /\ csChanges = 0

\* Load when the request fails: nil and the error
CsLoadRequestFails ==
    /\ csLoads < MaxCsLoads
    /\ UNCHANGED notCs
    /\ csLoads' = csLoads + 1
    /\ csLast' = [CsNoLoad EXCEPT !.kind = "request", !.err = TRUE,
                                  !.before = csCache.versionIDs,
                                  !.prevDecodeErr = CsDecodeFailed,
                                  !.prevCache = csLast.cacheBefore]
    /\ UNCHANGED <<csServer, csFormat, csCache, csFill, csChanges>>

\* Load: the server answers 404 when it holds no key under the prefix, else
\* the pairs, which kvPairsLoad turns into the result
CsLoad ==
    /\ csLoads < MaxCsLoads
    /\ UNCHANGED notCs
    /\ csLoads' = csLoads + 1
    /\ IF DOMAIN csServer = {}
       THEN /\ csLast' = [CsNoLoad EXCEPT !.kind = "404", !.err = TRUE,
                                          !.before = csCache.versionIDs,
                                          !.prevDecodeErr = CsDecodeFailed,
                                          !.prevCache = csLast.cacheBefore]
            /\ UNCHANGED <<csCache, csFill>>
       ELSE LET r == KvPairsLoad(csCache, KvPairs(csServer), csFormat)
            IN  /\ csLast' = [kind |-> "pairs", hit |-> r.hit, err |-> r.err,
                              panic |-> r.panic, ret |-> r.ret,
                              decodes |-> r.decodes,
                              returned |-> ReturnedIDs(KvPairs(csServer)),
                              corrupt |-> \E k \in DOMAIN csServer :
                                             Base64Fails(csServer[k].Value),
                              before |-> csCache.versionIDs,
                              cacheBefore |-> IF r.err THEN CsEntry ELSE NoCache,
                              prevDecodeErr |-> CsDecodeFailed,
                              prevCache |-> csLast.cacheBefore]
                /\ csCache' = r.cache
                /\ csFill' = IF r.saved THEN r.ret ELSE csFill
    /\ UNCHANGED <<csServer, csFormat, csChanges>>

\* the server: a key is written; the write gives it a Value and a
\* ModifyIndex (which a server that keeps the index of a key shows as a
\* changed Value under the same ModifyIndex).  To a loader of plain values
\* every base-64 Value is alike, so one stands for them.
CsPut(k, idx, v) ==
    /\ csChanges < MaxCsChanges
    /\ UNCHANGED notCs
    /\ csFormat = RemoteValuePlain => v \in {"ok1", "ok2", "badb64"}
    /\ csChanges' = csChanges + 1
    /\ csServer' = [x \in DOMAIN csServer \cup {k} |->
                       IF x = k THEN [ModifyIndex |-> idx, Value |-> v]
                       ELSE csServer[x]]
    /\ csServer' # csServer
    /\ UNCHANGED <<csFormat, csCache, csLast, csFill, csLoads>>

\* the server: a key is deleted
CsDelete(k) ==
    /\ csChanges < MaxCsChanges
    /\ UNCHANGED notCs
    /\ k \in DOMAIN csServer
    /\ csChanges' = csChanges + 1
    /\ csServer' = [x \in DOMAIN csServer \ {k} |-> csServer[x]]
    /\ UNCHANGED <<csFormat, csCache, csLast, csFill, csLoads>>

CsNext ==
    \/ CsLoad
    \/ CsLoadRequestFails
    \/ \E k \in CsKeys, idx \in 1..MaxModifyIndex, v \in CsValues : CsPut(k, idx, v)
    \/ \E k \in CsKeys : CsDelete(k)

\* ========================================================================
\* EtcdLoader with the watcher strategy (loader_etcd.go)
\* ========================================================================

\* the keys the etcd server may hold under the loaded key
EtKeys == {"a", "b"}

\* the values a key may hold: two documents, the JSON null, and bytes that
\* are no document of the format
EtValues == {"ok1", "ok2", "null", "badfmt"}

\* the result of the Range: the pairs of the server, ordered by key
EtKvs(server) ==
    LET keys == SelectSeq(KeyOrder, LAMBDA k : k \in DOMAIN server)
    IN  [i \in 1..Len(keys) |-> [Key |-> keys[i], Value |-> server[keys[i]]]]

\* etcdKVPairsLoad from pair idx on: decode the format, take the first map
\* as it is and merge the others into it key by key (an assignment into a
\* nil map panics)
RECURSIVE EtcdKVPairsLoad(_, _, _, _)
EtcdKVPairsLoad(kvPairs, idx, configMap, format) ==
    IF idx > Len(kvPairs)
    THEN [err |-> FALSE, panic |-> FALSE, configMap |-> configMap]
    ELSE LET kvPair == kvPairs[idx]
             cur == GetRemoteKVPairConfigMap(kvPair.Key, kvPair.Value, format)
         IN  IF RemoteValueFails(kvPair.Value, format)
             THEN [err |-> TRUE, panic |-> FALSE, configMap |-> NilMap]
             ELSE IF idx = 1
             THEN EtcdKVPairsLoad(kvPairs, idx + 1, cur, format)
             ELSE IF configMap.isNil /\ DOMAIN cur.kv # {}
             THEN [err |-> FALSE, panic |-> TRUE, configMap |-> NilMap]
             ELSE EtcdKVPairsLoad(kvPairs, idx + 1,
                                  [configMap EXCEPT !.kv = cur.kv @@ configMap.kv],
                                  format)

\* client.Close(): the first Close of a client closes its connection and
\* returns nil; a client that is closed already has a cancelled context and a
\* closing connection, which Close reports as an error
ClientCloseFails(client) == client = "closed"

\* no watch task was started
EtNoTask == [pc |-> "none", event |-> Nil]

\* no Load has returned yet
EtNoLoad ==
    [n |-> 0, failed |-> FALSE, ret |-> NilMap, errs |-> <<>>, applied |-> 0]

\* nothing has happened yet
EtNoCount == [loads |-> 0, closes |-> 0, changes |-> 0, errLoads |-> 0,
              clients |-> 0, ranges |-> 0, tasks |-> 0]

\* a panic in the watch task or in Load ends the process
EtCrashed == etWatch.pc = "panicked" \/ etLoad = "panicked"

\* the loader is built with the watcher for one of the formats, over a
\* server holding none, one or both of the keys
EtInit ==
    /\ etFormat \in {RemoteValuePlain, RemoteValueJSON}
    /\ \E keys \in SUBSET EtKeys :
           etServer \in [keys -> IF etFormat = RemoteValuePlain THEN {"ok1"}
                                 ELSE {"ok1", "null"}]
    /\ etClient = Nil
    /\ etLive = NilMap
    /\ etErrs = <<>>
    /\ etWatch = EtNoTask
    /\ etChan = <<>>
    /\ etLoad = "idle"
    /\ etClose = [pc |-> "idle", err |-> FALSE, found |-> Nil]
    /\ etLast = EtNoLoad
    /\ etCloseRes = <<>>
    /\ etSeed = NilMap
    /\ etApplied = <<>>
    /\ etCount = EtNoCount

\* Load returns nil and the error of init, which has created a client and
\* issued the Range or not
EtLoadFailed(created) ==
    /\ etLoad' = "idle"
    /\ etLast' = [n |-> etCount.loads + 1, failed |-> TRUE, ret |-> NilMap,
                  errs |-> <<>>, applied |-> 0]
    /\ etCount' = [etCount EXCEPT !.loads = @ + 1,
                                  !.clients = @ + created,
                                  !.ranges = @ + created]

\* Load, init under mu.Lock, when no client exists and clientv3.New fails
EtInitNewFails ==
    /\ ~EtCrashed
    /\ UNCHANGED notEt
    /\ etLoad = "idle"
    /\ etClose.pc = "idle"
    /\ etCount.loads < MaxEtLoads
    /\ etClient = Nil
    /\ EtLoadFailed(0)
    /\ UNCHANGED <<etServer, etFormat, etClient, etLive, etErrs, etWatch,
                   etChan, etClose, etCloseRes, etSeed, etApplied>>

\* Load, init under mu.Lock, when no client exists: the client is created
\* and stored, and the Range fails
EtInitRangeFails ==
    /\ ~EtCrashed
    /\ UNCHANGED notEt
    /\ etLoad = "idle"
    /\ etClose.pc = "idle"
    /\ etCount.loads < MaxEtLoads
    /\ etClient = Nil
    /\ etClient' = "open"
    /\ EtLoadFailed(1)
    /\ UNCHANGED <<etServer, etFormat, etLive, etErrs, etWatch, etChan,
                   etClose, etCloseRes, etSeed, etApplied>>

\* Load, init under mu.Lock: with a client stored nothing is done; else
\* the client is created and stored, the pairs of the Range are decoded
\* (an error is returned, a panic ends the process), the map becomes the
\* live map and the watch task is started
EtInitStep ==
    /\ ~EtCrashed
    /\ UNCHANGED notEt
    /\ etLoad = "idle"
    /\ etClose.pc = "idle"
    /\ etCount.loads < MaxEtLoads
    /\ IF etClient # Nil
       THEN /\ etLoad' = "read"
            /\ UNCHANGED <<etClient, etLive, etWatch, etLast, etSeed, etApplied,
                           etCount>>
       ELSE LET r == EtcdKVPairsLoad(EtKvs(etServer), 1, NilMap, etFormat)
            IN  /\ etClient' = "open"
                /\ IF r.err
                   THEN /\ EtLoadFailed(1)
                        /\ UNCHANGED <<etLive, etWatch, etSeed, etApplied>>
                   ELSE IF r.panic
                   THEN /\ etLoad' = "panicked"
                        /\ etCount' = [etCount EXCEPT !.clients = @ + 1,
                                                      !.ranges = @ + 1]
                        /\ UNCHANGED <<etLive, etWatch, etLast, etSeed, etApplied>>
                   ELSE /\ etLive' = r.configMap
                        /\ etSeed' = r.configMap
                        /\ etApplied' = <<>>
                        /\ etWatch' = [pc |-> "start", event |-> Nil]
                        /\ etLoad' = "read"
                        /\ etCount' = [etCount EXCEPT !.clients = @ + 1,
                                                      !.ranges = @ + 1,
                                                      !.tasks = @ + 1]
                        /\ UNCHANGED etLast
    /\ UNCHANGED <<etServer, etFormat, etErrs, etChan, etClose, etCloseRes>>

\* a faulty Load that leaves the buffered errors in place
EtLoadReadKeepsErrors ==
    /\ ~EtCrashed
    /\ UNCHANGED notEt
    /\ etLoad = "read"
    /\ etLoad' = "idle"
    /\ etLast' = [n |-> etCount.loads + 1, failed |-> FALSE,
                  ret |-> DeepCopyValue(etLive), errs |-> etErrs,
                  applied |-> Len(etApplied)]
    /\ etCount' = [etCount EXCEPT !.loads = @ + 1,
                                  !.errLoads = IF etErrs # <<>> THEN @ + 1 ELSE @]
    /\ UNCHANGED <<etServer, etFormat, etClient, etLive, etErrs, etWatch, etChan,
                   etClose, etCloseRes, etSeed, etApplied>>

\* Load after init, under mu.RLock: a deep copy of the live map and the
\* buffered errors are returned, and the buffer is reset
EtLoadRead ==
    /\ ~EtCrashed
    /\ UNCHANGED notEt
    /\ etLoad = "read"
    /\ etLoad' = "idle"
    /\ etLast' = [n |-> etCount.loads + 1, failed |-> FALSE,
                  ret |-> DeepCopyValue(etLive), errs |-> etErrs,
                  applied |-> Len(etApplied)]
    /\ etErrs' = <<>>
    /\ etCount' = [etCount EXCEPT !.loads = @ + 1,
                                  !.errLoads = IF etErrs # <<>> THEN @ + 1 ELSE @]
    /\ UNCHANGED <<etServer, etFormat, etClient, etLive, etWatch, etChan,
                   etClose, etCloseRes, etSeed, etApplied>>

\* watchKeysAsync: client.Watch gives the channel
EtWatchStart ==
    /\ ~EtCrashed
    /\ UNCHANGED notEt
    /\ etWatch.pc = "start"
    /\ etClient = "open"
    /\ etWatch' = [etWatch EXCEPT !.pc = "watching"]
    /\ UNCHANGED <<etServer, etFormat, etClient, etLive, etErrs, etChan, etLoad,
                   etClose, etLast, etCloseRes, etSeed, etApplied, etCount>>

\* the events a change of the server delivers: one while the channel is
\* open, none else
EtDeliver(event) ==
    IF etWatch.pc \in {"watching", "apply"} /\ etClient = "open"
    THEN Append(etChan, [event EXCEPT !.n = etCount.changes + 1])
    ELSE etChan

\* the server: a key is put.  To a loader of plain values every value is
\* alike, so two stand for them.
EtPut(k, v) ==
    /\ ~EtCrashed
    /\ UNCHANGED notEt
    /\ etCount.changes < MaxEtChanges
    /\ etFormat = RemoteValuePlain => v \in {"ok1", "ok2"}
    /\ etServer' = [x \in DOMAIN etServer \cup {k} |->
                       IF x = k THEN v ELSE etServer[x]]
    /\ etChan' = EtDeliver([type |-> "PUT", Key |-> k, Value |-> v, n |-> 0])
    /\ etCount' = [etCount EXCEPT !.changes = @ + 1]
    /\ UNCHANGED <<etFormat, etClient, etLive, etErrs, etWatch, etLoad, etClose,
                   etLast, etCloseRes, etSeed, etApplied>>

\* the server: a key is deleted
EtDelete(k) ==
    /\ ~EtCrashed
    /\ UNCHANGED notEt
    /\ etCount.changes < MaxEtChanges
    /\ k \in DOMAIN etServer
    /\ etServer' = [x \in DOMAIN etServer \ {k} |-> etServer[x]]
    /\ etChan' = EtDeliver([type |-> "DELETE", Key |-> k, Value |-> "", n |-> 0])
    /\ etCount' = [etCount EXCEPT !.changes = @ + 1]
    /\ UNCHANGED <<etFormat, etClient, etLive, etErrs, etWatch, etLoad, etClose,
                   etLast, etCloseRes, etSeed, etApplied>>

\* watchKeysAsync: the next event is received from the channel (a PUT is
\* decoded before the lock is taken)
EtReceive ==
    /\ ~EtCrashed
    /\ UNCHANGED notEt
    /\ etWatch.pc = "watching"
    /\ etChan # <<>>
    /\ etWatch' = [pc |-> "apply", event |-> Head(etChan)]
    /\ etChan' = Tail(etChan)
    /\ UNCHANGED <<etServer, etFormat, etClient, etLive, etErrs, etLoad, etClose,
                   etLast, etCloseRes, etSeed, etApplied, etCount>>

\* delete(loaderStrategy.configMap, key)
DeleteEntry(m, key) == [m EXCEPT !.kv = MapDel(m.kv, key)]

\* watchKeysAsync: the received event is applied under mu.Lock, which a
\* Close holding mu.RLock keeps away: a DELETE removes the entry named by
\* the event key; a PUT that did not decode adds its error to the buffer; a
\* PUT that decoded is merged into the live map key by key (an assignment
\* into a nil map panics)
EtApply ==
    /\ ~EtCrashed
    /\ UNCHANGED notEt
    /\ etWatch.pc = "apply"
    /\ etClose.pc = "idle"
    /\ LET event == etWatch.event
           cur == GetRemoteKVPairConfigMap(event.Key, event.Value, etFormat)
       IN  /\ etApplied' = Append(etApplied, event)
           /\ IF event.type = "DELETE"
              THEN /\ etLive' = DeleteEntry(etLive, event.Key)
                   /\ etWatch' = [pc |-> "watching", event |-> Nil]
                   /\ UNCHANGED etErrs
              ELSE IF RemoteValueFails(event.Value, etFormat)
              THEN /\ etErrs' = Append(etErrs, event.n)
                   /\ etWatch' = [pc |-> "watching", event |-> Nil]
                   /\ UNCHANGED etLive
              ELSE IF etLive.isNil /\ DOMAIN cur.kv # {}
              THEN /\ etWatch' = [pc |-> "panicked", event |-> Nil]
                   /\ UNCHANGED <<etLive, etErrs>>
              ELSE /\ etLive' = [etLive EXCEPT !.kv = cur.kv @@ etLive.kv]
                   /\ etWatch' = [pc |-> "watching", event |-> Nil]
                   /\ UNCHANGED etErrs
    /\ UNCHANGED <<etServer, etFormat, etClient, etChan, etLoad, etClose, etLast,
                   etCloseRes, etSeed, etCount>>

\* watchKeysAsync: the channel of a closed client is closed, the loop ends
\* and wg.Done is called (events not yet received may be lost)
EtWatchExit ==
    /\ ~EtCrashed
    /\ UNCHANGED notEt
    /\ etWatch.pc \in {"start", "watching"}
    /\ etClient = "closed"
    /\ etWatch' = [pc |-> "exited", event |-> Nil]
    /\ etChan' = <<>>
    /\ UNCHANGED <<etServer, etFormat, etClient, etLive, etErrs, etLoad, etClose,
                   etLast, etCloseRes, etSeed, etApplied, etCount>>

\* Close: mu.RLock is taken (init, which holds mu.Lock, is over); without a
\* client Close returns nil, else client.Close is called
EtCloseBegin ==
    /\ ~EtCrashed
    /\ UNCHANGED notEt
    /\ etClose.pc = "idle"
    /\ etCount.closes < MaxEtCloses
    /\ etCount' = [etCount EXCEPT !.closes = @ + 1]
    /\ IF etClient = Nil
       THEN /\ etCloseRes' = Append(etCloseRes, [found |-> Nil, err |-> FALSE])
            /\ UNCHANGED <<etClient, etClose>>
       ELSE /\ etClose' = [pc |-> "wait", err |-> ClientCloseFails(etClient),
                           found |-> etClient]
            /\ etClient' = "closed"
            /\ UNCHANGED etCloseRes
    /\ UNCHANGED <<etServer, etFormat, etLive, etErrs, etWatch, etChan, etLoad,
                   etLast, etSeed, etApplied>>

\* a faulty Close that does not wait for the watch task
EtCloseReturnNoWait ==
    /\ ~EtCrashed
    /\ UNCHANGED notEt
    /\ etClose.pc = "wait"
    /\ etCloseRes' = Append(etCloseRes, [found |-> etClose.found, err |-> etClose.err])
    /\ etClose' = [pc |-> "idle", err |-> FALSE, found |-> Nil]
    /\ UNCHANGED <<etServer, etFormat, etClient, etLive, etErrs, etWatch, etChan,
                   etLoad, etLast, etSeed, etApplied, etCount>>

\* Close: wg.Wait returns once the watch task, if there was one, has called
\* wg.Done; mu.RUnlock, and the result of client.Close is returned
EtCloseReturn ==
    /\ ~EtCrashed
    /\ UNCHANGED notEt
    /\ etClose.pc = "wait"
    /\ etWatch.pc \in {"none", "exited"}
    /\ etCloseRes' = Append(etCloseRes, [found |-> etClose.found, err |-> etClose.err])
    /\ etClose' = [pc |-> "idle", err |-> FALSE, found |-> Nil]
    /\ UNCHANGED <<etServer, etFormat, etClient, etLive, etErrs, etWatch, etChan,
                   etLoad, etLast, etSeed, etApplied, etCount>>

\* the steps of the watch task
EtWatchStep ==
    \/ EtWatchStart
    \/ EtReceive
    \/ EtApply
    \/ EtWatchExit

EtNext ==
    \/ EtInitNewFails
    \/ EtInitRangeFails
    \/ EtInitStep
    \/ EtLoadRead
    \/ EtWatchStart
    \/ \E k \in EtKeys, v \in EtValues : EtPut(k, v)
    \/ \E k \in EtKeys : EtDelete(k)
    \/ EtReceive
    \/ EtApply
    \/ EtWatchExit
    \/ EtCloseBegin
    \/ EtCloseReturn

\* ========================================================================
\* Config with reload enabled: the reload task and Close (config.go)
\* ========================================================================

\* the states of the source: the map a Load of the loader returns
RlStates == {"v1", "v2", "v3"}

\* the reload task waiting in its select
RlSelecting == [pc |-> "select", newConfigMap |-> Nil, fresh |-> FALSE]

\* no Get was made yet
RlNoGet == [made |-> FALSE, value |-> Nil, source |-> Nil, settled |-> FALSE]

\* Close has not returned yet
RlNotClosed == [returned |-> 0, load |-> FALSE, install |-> FALSE]

\* close(cfg.closed) of a closed channel panics and ends the process
RlCrashed == rlClose = "panicked"

\* the reload task was not started
RlNoTask == [pc |-> "none", newConfigMap |-> Nil, fresh |-> FALSE]

\* NewDefaultConfig with a reload interval is called: there is no Config, no
\* ticker and no reload task yet
RlInit ==
    /\ rlCtor = "new"
    /\ rlSource \in RlStates
    /\ rlSnap = Nil
    /\ rlTick = FALSE
    /\ rlTicker = "none"
    /\ rlClosed = FALSE
    /\ rlTask = RlNoTask
    /\ rlClose = "idle"
    /\ rlGet = RlNoGet
    /\ rlSettled = FALSE
    /\ rlAfter = RlNotClosed
    /\ rlCount = [changes |-> 0, closes |-> 0]

\* NewDefaultConfig: config.setConfigMap() loads the state of the source and
\* makes it the snapshot
RlNewLoaded ==
    /\ UNCHANGED notRl
    /\ rlCtor = "new"
    /\ rlCtor' = "loaded"
    /\ rlSnap' = rlSource
    /\ UNCHANGED <<rlSource, rlTick, rlTicker, rlClosed, rlTask, rlClose, rlGet,
                   rlSettled, rlAfter, rlCount>>

\* a faulty NewDefaultConfig that starts the ticker and the reload task
\* before the initial Load, and returns its error with them running
RlNewLoadFailsStarted ==
    /\ UNCHANGED notRl
    /\ rlCtor = "new"
    /\ rlCtor' = "failed"
    /\ rlTicker' = "running"
    /\ rlTask' = RlSelecting
    /\ UNCHANGED <<rlSource, rlSnap, rlTick, rlClosed, rlClose, rlGet,
                   rlSettled, rlAfter, rlCount>>

\* NewDefaultConfig: config.setConfigMap() returns the error of Load, and
\* the constructor returns nil and that error
RlNewLoadFails ==
    /\ UNCHANGED notRl
    /\ rlCtor = "new"
    /\ rlCtor' = "failed"
    /\ UNCHANGED <<rlSource, rlSnap, rlTick, rlTicker, rlClosed, rlTask, rlClose,
                   rlGet, rlSettled, rlAfter, rlCount>>

\* NewDefaultConfig, reloadInterval > 0: the ticker is made, the reload task
\* is started, and the Config is returned
RlNewStart ==
    /\ UNCHANGED notRl
    /\ rlCtor = "loaded"
    /\ rlCtor' = "returned"
    /\ rlTicker' = "running"
    /\ rlTask' = RlSelecting
    /\ UNCHANGED <<rlSource, rlSnap, rlTick, rlClosed, rlClose, rlGet,
                   rlSettled, rlAfter, rlCount>>

\* the steps of the constructor while the loader succeeds
RlNewStep ==
    \/ RlNewLoaded
    \/ RlNewStart

\* the source changes
RlChange(v) ==
    /\ ~RlCrashed
    /\ UNCHANGED <<notRl, rlCtor>>
    /\ rlCount.changes < MaxRlChanges
    /\ v # rlSource
    /\ rlSource' = v
    /\ rlCount' = [rlCount EXCEPT !.changes = @ + 1]
    /\ rlSettled' = FALSE
    /\ rlTask' = [rlTask EXCEPT !.fresh = FALSE]
    /\ UNCHANGED <<rlSnap, rlTick, rlTicker, rlClosed, rlClose, rlGet, rlAfter>>

\* the ticker: an interval has passed and ticker.C, if it is empty, gets a
\* tick
RlTickFires ==
    /\ ~RlCrashed
    /\ UNCHANGED <<notRl, rlCtor>>
    /\ rlCtor = "returned"
    /\ rlTicker = "running"
    /\ ~rlTick
    /\ rlTick' = TRUE
    /\ UNCHANGED <<rlSource, rlSnap, rlTicker, rlClosed, rlTask, rlClose, rlGet,
                   rlSettled, rlAfter, rlCount>>

\* reloadAsync, case <-cfg.ticker.C
RlSelectTick ==
    /\ ~RlCrashed
    /\ UNCHANGED <<notRl, rlCtor>>
    /\ rlCtor = "returned"
    /\ rlTask.pc = "select"
    /\ rlTick
    /\ rlTick' = FALSE
    /\ rlTask' = [pc |-> "load", newConfigMap |-> Nil, fresh |-> TRUE]
    /\ UNCHANGED <<rlSource, rlSnap, rlTicker, rlClosed, rlClose, rlGet,
                   rlSettled, rlAfter, rlCount>>

\* reloadAsync, case <-cfg.closed: the ticker is stopped, the task returns
\* and wg.Done is called
RlSelectClosed ==
    /\ ~RlCrashed
    /\ UNCHANGED <<notRl, rlCtor>>
    /\ rlCtor = "returned"
    /\ rlTask.pc = "select"
    /\ rlClosed
    /\ rlTicker' = "stopped"
    /\ rlTask' = [pc |-> "exited", newConfigMap |-> Nil, fresh |-> FALSE]
    /\ UNCHANGED <<rlSource, rlSnap, rlTick, rlClosed, rlClose, rlGet,
                   rlSettled, rlAfter, rlCount>>

\* setConfigMap: cfg.loader.Load() returns the state of the source
RlLoad ==
    /\ ~RlCrashed
    /\ UNCHANGED <<notRl, rlCtor>>
    /\ rlCtor = "returned"
    /\ rlTask.pc = "load"
    /\ rlTask' = [rlTask EXCEPT !.pc = "install", !.newConfigMap = rlSource]
    /\ rlAfter' = [rlAfter EXCEPT !.load = @ \/ rlAfter.returned > 0]
    /\ UNCHANGED <<rlSource, rlSnap, rlTick, rlTicker, rlClosed, rlClose, rlGet,
                   rlSettled, rlCount>>

\* setConfigMap: cfg.loader.Load() returns an error, which setConfigMap
\* returns and reloadAsync hands to the handler, if there is one
RlLoadFails ==
    /\ ~RlCrashed
    /\ UNCHANGED <<notRl, rlCtor>>
    /\ rlCtor = "returned"
    /\ rlTask.pc = "load"
    /\ rlTask' = RlSelecting
    /\ rlAfter' = [rlAfter EXCEPT !.load = @ \/ rlAfter.returned > 0]
    /\ UNCHANGED <<rlSource, rlSnap, rlTick, rlTicker, rlClosed, rlClose, rlGet,
                   rlSettled, rlCount>>

\* a faulty setConfigMap that drops the loaded map
RlInstallDropped ==
    /\ ~RlCrashed
    /\ UNCHANGED <<notRl, rlCtor>>
    /\ rlCtor = "returned"
    /\ rlTask.pc = "install"
    /\ rlTask' = [rlTask EXCEPT !.pc = "notify"]
    /\ UNCHANGED <<rlSource, rlSnap, rlTick, rlTicker, rlClosed, rlClose, rlGet,
                   rlSettled, rlAfter, rlCount>>

\* setConfigMap: under cfg.mu.Lock the loaded map becomes cfg.configMap
RlInstall ==
    /\ ~RlCrashed
    /\ UNCHANGED <<notRl, rlCtor>>
    /\ rlCtor = "returned"
    /\ rlTask.pc = "install"
    /\ rlSnap' = rlTask.newConfigMap
    /\ rlTask' = [rlTask EXCEPT !.pc = "notify"]
    /\ rlAfter' = [rlAfter EXCEPT !.install = @ \/ rlAfter.returned > 0]
    /\ UNCHANGED <<rlSource, rlTick, rlTicker, rlClosed, rlClose, rlGet,
                   rlSettled, rlCount>>

\* setConfigMap: notifyObservers returns, and with it the tick is done
RlNotified ==
    /\ ~RlCrashed
    /\ UNCHANGED <<notRl, rlCtor>>
    /\ rlCtor = "returned"
    /\ rlTask.pc = "notify"
    /\ rlTask' = RlSelecting
    /\ rlSettled' = (rlSettled \/ rlTask.fresh)
    /\ UNCHANGED <<rlSource, rlSnap, rlTick, rlTicker, rlClosed, rlClose, rlGet,
                   rlAfter, rlCount>>

\* Get: the value is read from cfg.configMap under cfg.mu.RLock
RlGetKey ==
    /\ ~RlCrashed
    /\ UNCHANGED <<notRl, rlCtor>>
    /\ rlCtor = "returned"
    /\ rlGet' = [made |-> TRUE, value |-> rlSnap, source |-> rlSource,
                 settled |-> rlSettled]
    /\ UNCHANGED <<rlSource, rlSnap, rlTick, rlTicker, rlClosed, rlTask, rlClose,
                   rlSettled, rlAfter, rlCount>>

\* Close, close: close(cfg.closed), which panics when it is closed already
RlCloseBegin ==
    /\ ~RlCrashed
    /\ UNCHANGED <<notRl, rlCtor>>
    /\ rlCtor = "returned"
    /\ rlClose = "idle"
    /\ rlCount.closes < MaxRlCloses
    /\ rlCount' = [rlCount EXCEPT !.closes = @ + 1]
    /\ IF rlClosed
       THEN rlClose' = "panicked"
       ELSE rlClose' = "wait"
    /\ rlClosed' = TRUE
    /\ UNCHANGED <<rlSource, rlSnap, rlTick, rlTicker, rlTask, rlGet, rlSettled,
                   rlAfter>>

\* a faulty close that does not wait for the reload task
RlCloseReturnNoWait ==
    /\ ~RlCrashed
    /\ UNCHANGED <<notRl, rlCtor>>
    /\ rlCtor = "returned"
    /\ rlClose = "wait"
    /\ rlClose' = "idle"
    /\ rlAfter' = [rlAfter EXCEPT !.returned = @ + 1]
    /\ UNCHANGED <<rlSource, rlSnap, rlTick, rlTicker, rlClosed, rlTask, rlGet,
                   rlSettled, rlCount>>

\* Close, close: cfg.wg.Wait() returns once the reload task has called
\* wg.Done; Close returns nil
RlCloseReturn ==
    /\ ~RlCrashed
    /\ UNCHANGED <<notRl, rlCtor>>
    /\ rlCtor = "returned"
    /\ rlClose = "wait"
    /\ rlTask.pc = "exited"
    /\ rlClose' = "idle"
    /\ rlAfter' = [rlAfter EXCEPT !.returned = @ + 1]
    /\ UNCHANGED <<rlSource, rlSnap, rlTick, rlTicker, rlClosed, rlTask, rlGet,
                   rlSettled, rlCount>>

\* the steps of the reload task while the loader succeeds
RlTaskStep ==
    \/ RlSelectTick
    \/ RlLoad
    \/ RlInstall
    \/ RlNotified

RlNextSucceeding ==
    \/ RlNewStep
    \/ \E v \in RlStates : RlChange(v)
    \/ RlTickFires
    \/ RlTaskStep
    \/ RlSelectClosed
    \/ RlGetKey
    \/ RlCloseBegin
    \/ RlCloseReturn

RlNext ==
    \/ RlNextSucceeding
    \/ RlNewLoadFails
    \/ RlLoadFails

\* ========================================================================
\* FilterKVLoader (loader_decorator_filter_kv.go)
\* ========================================================================

\* keys of the decorated loader's map
FkKeys == {"a", "b"}

\* FilterTypeWhitelist, FilterTypeBlacklist, and any other value a Type()
\* may return
FilterTypes == {"whitelist", "blacklist", "other"}

\* a FilterKV: its Type() and the keys for which IsAllowed returns true
FkFilterKinds == [type : FilterTypes, allowed : SUBSET FkKeys]

\* what the decorated loader may return: an error, a nil map, or a map over
\* some of the keys
FkChildOutcomes ==
    {[err |-> TRUE, isNil |-> TRUE, kv |-> EmptyMap],
     [err |-> FALSE, isNil |-> TRUE, kv |-> EmptyMap]}
    \cup {[err |-> FALSE, isNil |-> FALSE, kv |-> [k \in S |-> "v"]] : S \in SUBSET FkKeys}

\* the bucket blacklistFilters
BlacklistFilters(filters) == SelectSeq(filters, LAMBDA f : f.type = "blacklist")

\* the bucket whitelistFilters
WhitelistFilters(filters) == SelectSeq(filters, LAMBDA f : f.type = "whitelist")

\* a faulty loop body: a key a whitelist filter permits is kept without
\* asking the blacklist filters
KvKeptWhitelistFirst(filters, key) ==
    LET bl == BlacklistFilters(filters)
        wl == WhitelistFilters(filters)
    IN  \/ \E i \in DOMAIN wl : key \in wl[i].allowed
        \/ /\ Len(wl) = 0
           /\ \A i \in DOMAIN bl : key \in bl[i].allowed

\* the body of KvLoop: the key is deleted when a blacklist filter does not
\* allow it, or when there are whitelist filters and none allows it
KvKept(filters, key) ==
    LET bl == BlacklistFilters(filters)
        wl == WhitelistFilters(filters)
    IN  IF \E i \in DOMAIN bl : key \notin bl[i].allowed
        THEN FALSE
        ELSE IF Len(wl) > 0
             THEN \E i \in DOMAIN wl : key \in wl[i].allowed
             ELSE TRUE

\* FilterKVLoader(loader, filters...) has returned the decorator
FkInit ==
    /\ \E n \in 0..MaxFilters : fkFilters \in [1..n -> FkFilterKinds]
    /\ fkChild \in FkChildOutcomes
    /\ fkPc = "idle"
    /\ fkMap = NilMap
    /\ fkTodo = {}
    /\ fkRet = [err |-> FALSE, isNil |-> TRUE, kv |-> EmptyMap]

\* Load: loader.Load() returns an error; its map and the error are returned
FkLoadFails ==
    /\ fkPc = "idle"
    /\ UNCHANGED notFk
    /\ fkChild.err
    /\ fkPc' = "returned"
    /\ fkRet' = fkChild
    /\ UNCHANGED <<fkFilters, fkChild, fkMap, fkTodo>>

\* Load: loader.Load() returns a map, and the range over it starts
FkLoad ==
    /\ fkPc = "idle"
    /\ UNCHANGED notFk
    /\ ~fkChild.err
    /\ fkPc' = "range"
    /\ fkMap' = [isNil |-> fkChild.isNil, kv |-> fkChild.kv]
    /\ fkTodo' = DOMAIN fkChild.kv
    /\ UNCHANGED <<fkFilters, fkChild, fkRet>>

\* Load: one iteration of KvLoop, for a key the range yields
FkVisit(key) ==
    /\ fkPc = "range"
    /\ UNCHANGED notFk
    /\ key \in fkTodo
    /\ fkTodo' = fkTodo \ {key}
    /\ fkMap' = IF KvKept(fkFilters, key)
                THEN fkMap
                ELSE [fkMap EXCEPT !.kv = MapDel(@, key)]
    /\ UNCHANGED <<fkFilters, fkChild, fkPc, fkRet>>

\* Load: the range is over; configMap and a nil error are returned
FkReturn ==
    /\ fkPc = "range"
    /\ UNCHANGED notFk
    /\ fkTodo = {}
    /\ fkPc' = "returned"
    /\ fkRet' = [err |-> FALSE, isNil |-> fkMap.isNil, kv |-> fkMap.kv]
    /\ UNCHANGED <<fkFilters, fkChild, fkMap, fkTodo>>

FkNext ==
    \/ FkLoadFails
    \/ FkLoad
    \/ \E key \in FkKeys : FkVisit(key)
    \/ FkReturn

\* ========================================================================
\* Config: the values Get returns, to callers and to observers (config.go)
\* ========================================================================

\* keys Get is called with
GvKeys == {"a", "A", "c"}

\* the maps the loader returns; "#1" is the int 1, the other values are
\* strings, Nil is a nil value
GvSourceMaps ==
    { EmptyMap,
      ("a" :> "v1") @@ ("A" :> "v2"),
      ("A" :> "v2"),
      ("a" :> "v1") @@ ("c" :> "#1"),
      ("a" :> "v2") @@ ("c" :> Nil) }

\* Get called without a default value
NoDef == "nodef"

\* the default values Get is called with: none, nil, a string, the int 7
GvDefaults == {NoDef, Nil, "d", "#7"}

\* castValueByDefault: the value is cast to the type of the default value,
\* and the default value is returned when the cast fails
CastValueByDefault(value, defaultValue) ==
    CASE defaultValue = "d" ->
             (CASE value = "#1" -> "1"
                [] value = Nil -> ""
                [] OTHER -> value)
      [] defaultValue = "#7" ->
             (CASE value = "#1" -> "#1"
                [] value = Nil -> "#0"
                [] OTHER -> defaultValue)
      [] OTHER -> value

\* a faulty Get that probes the map with the key as given
GetKeyAsGiven(ignoreCase, key) == key

\* Get: the key the map is probed with
GetKey(ignoreCase, key) == IF ignoreCase THEN ToUpper(key) ELSE key

\* a faulty Get that returns the value found, or nil, whatever the default
GetValueNoDefault(configMap, ignoreCase, key, def) ==
    Lookup(configMap, GetKey(ignoreCase, key))

\* Get: what it returns for a key and a default value on a snapshot
GetValue(configMap, ignoreCase, key, def) ==
    LET probe == GetKey(ignoreCase, key)
        foundKey == probe \in DOMAIN configMap
        value == Lookup(configMap, probe)
    IN  IF def # NoDef
        THEN IF ~foundKey
             THEN def
             ELSE IF def # Nil
                  THEN CastValueByDefault(value, def)
                  ELSE value
        ELSE value

\* setConfigMap is not running
GvIdle == [pc |-> "idle", new |-> EmptyMap, old |-> EmptyMap, todo |-> {},
           changed |-> <<>>]

\* no Get was made
GvNoGet == [made |-> FALSE, key |-> "a", def |-> NoDef, ret |-> Nil,
            snap |-> EmptyMap, inObserver |-> FALSE, load |-> 0]

\* NewDefaultConfig is called
GvInit ==
    /\ gvOpts \in [ignoreCase : BOOLEAN]
    /\ gvSnap = EmptyMap
    /\ gvObserver = FALSE
    /\ gvRun = GvIdle
    /\ gvGet = GvNoGet
    /\ gvLoads = 0

\* the constructor has returned a Config
GvReady == gvLoads > 1 \/ (gvLoads = 1 /\ gvRun.pc = "idle")

\* setConfigMap: cfg.loader.Load() returns the map m
GvLoad(m) ==
    /\ gvRun.pc = "idle"
    /\ UNCHANGED notGv
    /\ gvLoads < MaxGvLoads
    /\ gvLoads' = gvLoads + 1
    /\ gvRun' = [gvRun EXCEPT !.pc = "upper", !.new = m, !.todo = DOMAIN m]
    /\ UNCHANGED <<gvOpts, gvSnap, gvObserver, gvGet>>

\* setConfigMap of the reload task: cfg.loader.Load() returns an error, and
\* the snapshot stays
GvLoadFails ==
    /\ gvRun.pc = "idle"
    /\ UNCHANGED notGv
    /\ GvReady
    /\ gvLoads < MaxGvLoads
    /\ gvLoads' = gvLoads + 1
    /\ UNCHANGED <<gvOpts, gvSnap, gvObserver, gvRun, gvGet>>

\* toUppercaseConfigMap: one iteration of the range over the loaded map
GvUpper(k) ==
    /\ gvRun.pc = "upper"
    /\ UNCHANGED notGv
    /\ gvOpts.ignoreCase
    /\ k \in gvRun.todo
    /\ gvRun' = [gvRun EXCEPT
                    !.new = MapSet(MapDel(@, k), ToUpper(k), gvRun.new[k]),
                    !.todo = @ \ {k}]
    /\ UNCHANGED <<gvOpts, gvSnap, gvObserver, gvGet, gvLoads>>

\* a faulty setConfigMap that calls notifyObservers before it installs the
\* loaded map
GvInstallAfterNotify ==
    /\ gvRun.pc = "upper"
    /\ UNCHANGED notGv
    /\ ~gvOpts.ignoreCase \/ gvRun.todo = {}
    /\ gvRun' = [gvRun EXCEPT !.pc = "notify", !.old = gvSnap, !.todo = {}]
    /\ UNCHANGED <<gvOpts, gvSnap, gvObserver, gvGet, gvLoads>>

\* setConfigMap: the loaded map, uppercased if ignore-case is on, becomes
\* cfg.configMap under cfg.mu.Lock
GvInstall ==
    /\ gvRun.pc = "upper"
    /\ UNCHANGED notGv
    /\ ~gvOpts.ignoreCase \/ gvRun.todo = {}
    /\ gvSnap' = gvRun.new
    /\ gvRun' = [gvRun EXCEPT !.pc = "notify", !.old = gvSnap, !.todo = {}]
    /\ UNCHANGED <<gvOpts, gvObserver, gvGet, gvLoads>>

\* notifyObservers: it returns when there is no observer or the maps are
\* equal, else the observer is called with the changed keys
GvNotifyBegin ==
    /\ gvRun.pc = "notify"
    /\ UNCHANGED notGv
    /\ IF ~gvObserver \/ DeepEqual(gvRun.old, gvRun.new)
       THEN gvRun' = GvIdle
       ELSE gvRun' = [gvRun EXCEPT !.pc = "callback",
                          !.changed = ChangedKeys(gvRun.old, gvRun.new)]
    /\ UNCHANGED <<gvOpts, gvSnap, gvObserver, gvGet, gvLoads>>

\* the observer calls Get on the Config it was passed, for a changed key
GvObserverGet(i) ==
    /\ gvRun.pc = "callback"
    /\ UNCHANGED notGv
    /\ i \in DOMAIN gvRun.changed
    /\ gvGet' = [made |-> TRUE, key |-> gvRun.changed[i], def |-> NoDef,
                 ret |-> GetValue(gvSnap, gvOpts.ignoreCase, gvRun.changed[i], NoDef),
                 snap |-> gvSnap, inObserver |-> TRUE, load |-> gvLoads]
    /\ UNCHANGED <<gvOpts, gvSnap, gvObserver, gvRun, gvLoads>>

\* the observer returns, and notifyObservers and setConfigMap with it
GvNotifyEnd ==
    /\ gvRun.pc = "callback"
    /\ UNCHANGED notGv
    /\ gvRun' = GvIdle
    /\ UNCHANGED <<gvOpts, gvSnap, gvObserver, gvGet, gvLoads>>

\* RegisterObserver on the Config the constructor returned
GvRegister ==
    /\ GvReady
    /\ UNCHANGED notGv
    /\ ~gvObserver
    /\ gvRun.pc # "callback"
    /\ gvObserver' = TRUE
    /\ UNCHANGED <<gvOpts, gvSnap, gvRun, gvGet, gvLoads>>

\* Get(key) or Get(key, def) by a caller, at any moment after the
\* constructor has returned
GvGet(key, def) ==
    /\ GvReady
    /\ UNCHANGED notGv
    /\ gvGet' = [made |-> TRUE, key |-> key, def |-> def,
                 ret |-> GetValue(gvSnap, gvOpts.ignoreCase, key, def),
                 snap |-> gvSnap, inObserver |-> FALSE, load |-> gvLoads]
    /\ UNCHANGED <<gvOpts, gvSnap, gvObserver, gvRun, gvLoads>>

GvNext ==
    \/ \E m \in GvSourceMaps : GvLoad(m)
    \/ GvLoadFails
    \/ \E k \in DOMAIN gvRun.new : GvUpper(k)
    \/ GvInstall
    \/ GvNotifyBegin
    \/ \E i \in DOMAIN gvRun.changed : GvObserverGet(i)
    \/ GvNotifyEnd
    \/ GvRegister
    \/ \E key \in GvKeys, def \in GvDefaults : GvGet(key, def)

\* ========================================================================
\* FlagSetLoader (loader_flagset.go)
\* ========================================================================

\* the threads that call Load
FlThreads == {"t1", "t2"}

\* the flags of the flag set, in the lexical order Visit and VisitAll use:
\* n is an int flag, s is a string flag
FlNames == <<"n", "s">>

\* the values a flag may be given: "#1" and "#2" are the ints 1 and 2
FlValuesOf(name) == IF name = "n" THEN {"#1", "#2"} ELSE {"s1", "s2"}

\* the default value of a flag: the int 0, the empty string
FlDefault(name) == IF name = "n" THEN "#0" ELSE ""

\* f.Value.String(): the text of a flag's value
ValueString(v) ==
    CASE v = "#0" -> "0"
      [] v = "#1" -> "1"
      [] v = "#2" -> "2"
      [] OTHER -> v

\* the flags flgSet.VisitAll (all) or flgSet.Visit (set flags only) calls
\* storeFlagsIntoMap with, in order
VisitedFlags(all, flags) ==
    SelectSeq(FlNames, LAMBDA name : all \/ flags[name].set)

\* a thread that is not in Load and has not returned from one
FlNoLoad == [pc |-> "idle", todo |-> <<>>, n |-> 0, parsed |-> FALSE,
             begin |-> EmptyMap, ret |-> EmptyMap]

\* FlagSetLoader(flgSet) or FlagSetLoader(flgSet, visitAll) has returned the
\* loader; the flags are defined and the flag set is not parsed yet
FlInit ==
    /\ flAll \in BOOLEAN
    /\ flFlags = [name \in Range(FlNames) |-> [val |-> FlDefault(name), set |-> FALSE]]
    /\ flParsed = FALSE
    /\ flMap = EmptyMap
    /\ flInited = 0
    /\ flThr = [t \in FlThreads |-> FlNoLoad]
    /\ flCrashed = FALSE
    /\ flCount = [loads |-> 0, sets |-> 0]

\* flgSet.Parse(arguments): the flags named in the arguments get their
\* values and count as set
FlParse(S) ==
    /\ ~flCrashed
    /\ UNCHANGED notFl
    /\ ~flParsed
    /\ \E vals \in [S -> {"#1", "s1"}] :
           /\ \A name \in S : vals[name] \in FlValuesOf(name)
           /\ flFlags' = [name \in Range(FlNames) |->
                             IF name \in S
                             THEN [val |-> vals[name], set |-> TRUE]
                             ELSE flFlags[name]]
    /\ flParsed' = TRUE
    /\ UNCHANGED <<flAll, flMap, flInited, flThr, flCrashed, flCount>>

\* flgSet.Set(name, value) after the parse
FlSet(name, v) ==
    /\ ~flCrashed
    /\ UNCHANGED notFl
    /\ flParsed
    /\ \A t \in FlThreads : flThr[t].pc # "visit"
    /\ flCount.sets < MaxFlSets
    /\ v \in FlValuesOf(name)
    /\ v # flFlags[name].val
    /\ flFlags' = [flFlags EXCEPT ![name] = [val |-> v, set |-> TRUE]]
    /\ flCount' = [flCount EXCEPT !.sets = @ + 1]
    /\ UNCHANGED <<flAll, flParsed, flMap, flInited, flThr, flCrashed>>

\* Load: flgSet.Parsed() && atomic.CompareAndSwapInt32(&initialized, 0, 1);
\* the thread that swaps visits the flags, any other goes on to the copy
FlBegin(t) ==
    /\ ~flCrashed
    /\ UNCHANGED notFl
    /\ flThr[t].pc = "idle"
    /\ flCount.loads < MaxFlLoads
    /\ flCount' = [flCount EXCEPT !.loads = @ + 1]
    /\ IF flParsed /\ flInited = 0
       THEN /\ flInited' = 1
            /\ flThr' = [flThr EXCEPT ![t] =
                            [pc |-> "visit", todo |-> VisitedFlags(flAll, flFlags),
                             n |-> flCount.loads + 1, parsed |-> flParsed,
                             begin |-> flFlags, ret |-> EmptyMap]]
       ELSE /\ flInited' = flInited
            /\ flThr' = [flThr EXCEPT ![t] =
                            [pc |-> "copy", todo |-> <<>>,
                             n |-> flCount.loads + 1, parsed |-> flParsed,
                             begin |-> flFlags, ret |-> EmptyMap]]
    /\ UNCHANGED <<flAll, flFlags, flParsed, flMap, flCrashed>>

\* storeFlagsIntoMap for the next visited flag:
\* configMap[f.Name] = f.Value.String()
FlStore(t) ==
    /\ ~flCrashed
    /\ UNCHANGED notFl
    /\ flThr[t].pc = "visit"
    /\ flThr[t].todo # <<>>
    /\ LET name == Head(flThr[t].todo)
       IN  flMap' = MapSet(flMap, name, ValueString(flFlags[name].val))
    /\ flThr' = [flThr EXCEPT ![t].todo = Tail(@)]
    /\ UNCHANGED <<flAll, flFlags, flParsed, flInited, flCrashed, flCount>>

\* VisitAll or Visit returns
FlVisited(t) ==
    /\ ~flCrashed
    /\ UNCHANGED notFl
    /\ flThr[t].pc = "visit"
    /\ flThr[t].todo = <<>>
    /\ flThr' = [flThr EXCEPT ![t].pc = "copy"]
    /\ UNCHANGED <<flAll, flFlags, flParsed, flMap, flInited, flCrashed, flCount>>

\* Load returns DeepCopyConfigMap(configMap), a new map with the entries
\* configMap has at this moment
FlCopy(t) ==
    /\ ~flCrashed
    /\ UNCHANGED notFl
    /\ flThr[t].pc = "copy"
    /\ flThr' = [flThr EXCEPT ![t].pc = "idle", ![t].ret = flMap]
    /\ UNCHANGED <<flAll, flFlags, flParsed, flMap, flInited, flCrashed, flCount>>

\* DeepCopyConfigMap ranges over configMap while another thread assigns to
\* it: besides reading what is there (FlCopy), the Go runtime may end the
\* process with "concurrent map iteration and map write"
FlCopyRace(t) ==
    /\ ~flCrashed
    /\ UNCHANGED notFl
    /\ flThr[t].pc = "copy"
    /\ \E u \in FlThreads \ {t} : flThr[u].pc = "visit"
    /\ flCrashed' = TRUE
    /\ UNCHANGED <<flAll, flFlags, flParsed, flMap, flInited, flThr, flCount>>

FlNext ==
    \/ \E S \in SUBSET Range(FlNames) : FlParse(S)
    \/ \E name \in Range(FlNames), v \in {"#1", "#2", "s1", "s2"} : FlSet(name, v)
    \/ \E t \in FlThreads :
           \/ FlBegin(t)
           \/ FlStore(t)
           \/ FlVisited(t)
           \/ FlCopy(t)
           \/ FlCopyRace(t)

\* ========================================================================
\* Concurrent Loads of the watch-backed Etcd loader (loader_etcd.go): two
\* threads call Load while the watch task buffers decode errors.  The
\* errors are numbered in the order the watch task meets them.
\* ========================================================================

ElThreads == {"t1", "t2"}

\* the errors the watch task may meet
ElErrors == 1..MaxElErrors

\* a thread that is in no Load
ElNoLoad == [pc |-> "idle", err |-> {}]

\* a loader on which no Load was called
ElInit ==
    /\ elClient = FALSE
    /\ elErrs = {}
    /\ elReaders = {}
    /\ elThr = [t \in ElThreads |-> ElNoLoad]
    /\ elReturned = [e \in ElErrors |-> 0]
    /\ elCount = [loads |-> 0, errs |-> 0]

\* Load, init(): under mu.Lock, which no reader may hold, the first call
\* builds the client, seeds the map and starts the watch task
ElLoadInit(t) ==
    /\ elThr[t].pc = "idle"
    /\ elCount.loads < MaxElLoads
    /\ elReaders = {}
    /\ UNCHANGED notEl
    /\ elClient' = TRUE
    /\ elThr' = [elThr EXCEPT ![t] = [pc |-> "rlock", err |-> {}]]
    /\ elCount' = [elCount EXCEPT !.loads = @ + 1]
    /\ UNCHANGED <<elErrs, elReaders, elReturned>>

\* Load: mu.RLock(), which any number of threads may hold, and the copy of
\* the map
ElLoadRLock(t) ==
    /\ elThr[t].pc = "rlock"
    /\ UNCHANGED notEl
    /\ elReaders' = elReaders \cup {t}
    /\ elThr' = [elThr EXCEPT ![t].pc = "errOrNil"]
    /\ UNCHANGED <<elClient, elErrs, elReturned, elCount>>

\* Load: err := mErr.ErrOrNil(), the errors buffered at this moment
ElLoadErrOrNil(t) ==
    /\ elThr[t].pc = "errOrNil"
    /\ UNCHANGED notEl
    /\ elThr' = [elThr EXCEPT ![t] = [pc |-> "reset", err |-> elErrs]]
    /\ UNCHANGED <<elClient, elErrs, elReaders, elReturned, elCount>>

\* Load: mErr.Reset() empties the buffer
ElLoadReset(t) ==
    /\ elThr[t].pc = "reset"
    /\ UNCHANGED notEl
    /\ elErrs' = {}
    /\ elThr' = [elThr EXCEPT ![t].pc = "runlock"]
    /\ UNCHANGED <<elClient, elReaders, elReturned, elCount>>

\* Load: mu.RUnlock() and return configMap, err
ElLoadReturn(t) ==
    /\ elThr[t].pc = "runlock"
    /\ UNCHANGED notEl
    /\ elReaders' = elReaders \ {t}
    /\ elReturned' = [e \in ElErrors |->
                         IF e \in elThr[t].err THEN elReturned[e] + 1
                         ELSE elReturned[e]]
    /\ elThr' = [elThr EXCEPT ![t] = ElNoLoad]
    /\ UNCHANGED <<elClient, elErrs, elCount>>

\* the watch task meets a PUT whose value does not decode: under mu.Lock,
\* which it gets when no thread holds the read lock, mErr = mErr.Add(err)
ElWatchError ==
    /\ elClient
    /\ elCount.errs < MaxElErrors
    /\ elReaders = {}
    /\ UNCHANGED notEl
    /\ elErrs' = elErrs \cup {elCount.errs + 1}
    /\ elCount' = [elCount EXCEPT !.errs = @ + 1]
    /\ UNCHANGED <<elClient, elReaders, elThr, elReturned>>

ElNext ==
    \/ \E t \in ElThreads :
           \/ ElLoadInit(t)
           \/ ElLoadRLock(t)
           \/ ElLoadErrOrNil(t)
           \/ ElLoadReset(t)
           \/ ElLoadReturn(t)
    \/ ElWatchError

\* ========================================================================
\* The lock of a Config with reload (config.go): the reload task installs
\* a map and notifies the observers, whose callback calls Get on the
\* Config, while one thread registers observers and another calls Get.
\* mu is a sync.RWMutex: a read lock is given while no thread holds or
\* awaits the write lock, the write lock while no lock is held.
\* ========================================================================

\* mu.RLock() returns
RLockGiven == nfWriter = Nil /\ nfPending = {}

\* mu.Lock() returns
LockGiven == nfWriter = Nil /\ nfReaders = 0

\* a Config with reload that was just built: no observer is registered
NfInit ==
    /\ nfReaders = 0
    /\ nfWriter = Nil
    /\ nfPending = {}
    /\ nfObservers = 0
    /\ nfTask = "idle"
    /\ nfReg = "idle"
    /\ nfGet = "idle"
    /\ nfCount = [reloads |-> 0, registers |-> 0, gets |-> 0]

\* reloadAsync, a tick: setConfigMap loaded a map and calls mu.Lock()
NfReloadLock ==
    /\ nfTask = "idle"
    /\ nfCount.reloads < MaxNfReloads
    /\ UNCHANGED notNf
    /\ nfTask' = "lock"
    /\ nfPending' = nfPending \cup {"task"}
    /\ nfCount' = [nfCount EXCEPT !.reloads = @ + 1]
    /\ UNCHANGED <<nfReaders, nfWriter, nfObservers, nfReg, nfGet>>

\* setConfigMap: the write lock is given, the map is installed, mu.Unlock()
NfInstall ==
    /\ nfTask = "lock"
    /\ LockGiven
    /\ UNCHANGED notNf
    /\ nfPending' = nfPending \ {"task"}
    /\ nfTask' = "rlock"
    /\ UNCHANGED <<nfReaders, nfWriter, nfObservers, nfReg, nfGet, nfCount>>

\* notifyObservers: mu.RLock() is given; without an observer, or with equal
\* maps, it returns at once, else it calls the observers
NfNotifyBegin ==
    /\ nfTask = "rlock"
    /\ RLockGiven
    /\ UNCHANGED notNf
    /\ nfReaders' = nfReaders + 1
    /\ \E equal \in BOOLEAN :
           nfTask' = IF nfObservers = 0 \/ equal THEN "return" ELSE "callback"
    /\ UNCHANGED <<nfWriter, nfPending, nfObservers, nfReg, nfGet, nfCount>>

\* the observer's callback calls Get on the Config: mu.RLock()
NfCallbackGet ==
    /\ nfTask = "callback"
    /\ UNCHANGED notNf
    /\ nfTask' = "cbRLock"
    /\ UNCHANGED <<nfReaders, nfWriter, nfPending, nfObservers, nfReg, nfGet, nfCount>>

\* Get in the callback: the read lock is given
NfCallbackGetRLock ==
    /\ nfTask = "cbRLock"
    /\ RLockGiven
    /\ UNCHANGED notNf
    /\ nfReaders' = nfReaders + 1
    /\ nfTask' = "cbRead"
    /\ UNCHANGED <<nfWriter, nfPending, nfObservers, nfReg, nfGet, nfCount>>

\* Get in the callback: the value is read, mu.RUnlock(), and the callback
\* returns
NfCallbackGetReturn ==
    /\ nfTask = "cbRead"
    /\ UNCHANGED notNf
    /\ nfReaders' = nfReaders - 1
    /\ nfTask' = "return"
    /\ UNCHANGED <<nfWriter, nfPending, nfObservers, nfReg, nfGet, nfCount>>

\* notifyObservers returns: the deferred mu.RUnlock()
NfNotifyEnd ==
    /\ nfTask = "return"
    /\ UNCHANGED notNf
    /\ nfReaders' = nfReaders - 1
    /\ nfTask' = "idle"
    /\ UNCHANGED <<nfWriter, nfPending, nfObservers, nfReg, nfGet, nfCount>>

\* the steps of the reload task
NfTaskStep ==
    \/ NfInstall
    \/ NfNotifyBegin
    \/ NfCallbackGet
    \/ NfCallbackGetRLock
    \/ NfCallbackGetReturn
    \/ NfNotifyEnd

\* RegisterObserver is called: mu.Lock()
NfRegisterLock ==
    /\ nfReg = "idle"
    /\ nfCount.registers < MaxNfRegisters
    /\ UNCHANGED notNf
    /\ nfReg' = "lock"
    /\ nfPending' = nfPending \cup {"reg"}
    /\ nfCount' = [nfCount EXCEPT !.registers = @ + 1]
    /\ UNCHANGED <<nfReaders, nfWriter, nfObservers, nfTask, nfGet>>

\* RegisterObserver: the write lock is given and the observer is appended
NfRegisterAppend ==
    /\ nfReg = "lock"
    /\ LockGiven
    /\ UNCHANGED notNf
    /\ nfPending' = nfPending \ {"reg"}
    /\ nfWriter' = "reg"
    /\ nfObservers' = nfObservers + 1
    /\ nfReg' = "unlock"
    /\ UNCHANGED <<nfReaders, nfTask, nfGet, nfCount>>

\* RegisterObserver: mu.Unlock()
NfRegisterUnlock ==
    /\ nfReg = "unlock"
    /\ UNCHANGED notNf
    /\ nfWriter' = Nil
    /\ nfReg' = "idle"
    /\ UNCHANGED <<nfReaders, nfPending, nfObservers, nfTask, nfGet, nfCount>>

\* the steps of a RegisterObserver that was called
NfRegisterStep == NfRegisterAppend \/ NfRegisterUnlock

\* Get is called by another thread: mu.RLock()
NfGetCall ==
    /\ nfGet = "idle"
    /\ nfCount.gets < MaxNfGets
    /\ UNCHANGED notNf
    /\ nfGet' = "rlock"
    /\ nfCount' = [nfCount EXCEPT !.gets = @ + 1]
    /\ UNCHANGED <<nfReaders, nfWriter, nfPending, nfObservers, nfTask, nfReg>>

\* Get: the read lock is given
NfGetRLock ==
    /\ nfGet = "rlock"
    /\ RLockGiven
    /\ UNCHANGED notNf
    /\ nfReaders' = nfReaders + 1
    /\ nfGet' = "read"
    /\ UNCHANGED <<nfWriter, nfPending, nfObservers, nfTask, nfReg, nfCount>>

\* Get: the value is read, mu.RUnlock()
NfGetReturn ==
    /\ nfGet = "read"
    /\ UNCHANGED notNf
    /\ nfReaders' = nfReaders - 1
    /\ nfGet' = "idle"
    /\ UNCHANGED <<nfWriter, nfPending, nfObservers, nfTask, nfReg, nfCount>>

\* the steps of a Get that was called
NfGetStep == NfGetRLock \/ NfGetReturn

NfNext ==
    \/ NfReloadLock
    \/ NfTaskStep
    \/ NfRegisterLock
    \/ NfRegisterStep
    \/ NfGetCall
    \/ NfGetStep

\* the rest state of each component, for the specifications of the others
CfgRest ==
    /\ cfgOpts = [reload |-> FALSE, ignoreCase |-> FALSE, handler |-> FALSE]
    /\ cfgPhase = "failed"
    /\ cfgObjs = [i \in ObjIds |-> EmptyMap]
    /\ cfgRef = "m0"
    /\ cfgRun = [step |-> 0, who |-> "ctor", newRef |-> "m0", oldRef |-> "m0",
                 todo |-> {}, lockReq |-> FALSE]
    /\ cfgMu = [readers |-> 0, pending |-> {}]
    /\ cfgObservers = <<>>
    /\ cfgNotify = [active |-> FALSE, idx |-> 1, changed |-> <<>>]
    /\ cfgGet = [pc |-> "idle", key |-> "a", val |-> Nil, found |-> FALSE,
                 seen |-> EmptyMap]
    /\ cfgReg = [pc |-> "idle", obs |-> 1]
    /\ cfgTicks = 0
    /\ cfgCalls = <<>>
    /\ cfgHandled = [n |-> 0, last |-> "none"]
    /\ cfgErrs = [n |-> 0, last |-> "none"]
    /\ cfgBefore = EmptyMap
    /\ cfgObsAtTick = <<>>
    /\ cfgLast = "none"
    /\ cfgSnapPrev = EmptyMap
    /\ cfgSnapLast = EmptyMap

MlRest ==
    /\ mlAllow = FALSE
    /\ mlChildren = <<>>
    /\ mlResults = <<>>
    /\ mlDone = {}
    /\ mlOrder = <<>>
    /\ mlPc = "returned"
    /\ mlIdx = 0
    /\ mlMerge = [cm |-> NilMap, unq |-> {}, errs |-> <<>>, panic |-> FALSE]
    /\ mlRet = NilMap

FcRest ==
    /\ fcFile = [exists |-> FALSE, modTime |-> 1, content |-> "v1"]
    /\ fcCache = [configMap |-> NilMap, lastModified |-> 0]
    /\ fcPc = "idle"
    /\ fcLocal = [fModifiedAt |-> 0, configMap |-> NilMap]
    /\ fcLoads = 0
    /\ fcWrites = 0
    /\ fcChildCalls = 0
    /\ fcCur = NoLoad
    /\ fcFill = [n |-> 0, first |-> FALSE, t |-> 0, map |-> NilMap, calls |-> 0]
    /\ fcStable = FALSE

OwRest ==
    /\ owHeap = <<>>
    /\ owAllow = FALSE
    /\ owUser = 0
    /\ owPlain = 0
    /\ owCache = [configMap |-> 0, lastModified |-> 0]
    /\ owReturned = {}
    /\ owLast = [loader |-> "none", value |-> Scalar(0), err |-> FALSE, touched |-> {}]
    /\ owLoads = 0
    /\ owTouched = {}
    /\ owChanges = 0

CcRest ==
    /\ ccFile = [modTime |-> 1, content |-> "v1"]
    /\ ccCache = [configMap |-> Nil, lastModified |-> 0]
    /\ ccObjs = [o \in CcRefs |-> NilMap]
    /\ ccMu = {}
    /\ ccThr = [t \in CcThreads |-> CcIdle]
    /\ ccLoads = 0
    /\ ccWrites = 0
    /\ ccChildMaps = {}

CsRest ==
    /\ csServer = ("a" :> [ModifyIndex |-> 1, Value |-> "ok1"])
    /\ csFormat = RemoteValuePlain
    /\ csCache = [on |-> FALSE, configMap |-> NilMap, versionIDs |-> NoVersionIDs]
    /\ csLast = CsNoLoad
    /\ csFill = NilMap
    /\ csLoads = 0
    /\ csChanges = 0

EtRest ==
    /\ etServer = EmptyMap
    /\ etFormat = RemoteValuePlain
    /\ etClient = Nil
    /\ etLive = NilMap
    /\ etErrs = <<>>
    /\ etWatch = EtNoTask
    /\ etChan = <<>>
    /\ etLoad = "idle"
    /\ etClose = [pc |-> "idle", err |-> FALSE, found |-> Nil]
    /\ etLast = EtNoLoad
    /\ etCloseRes = <<>>
    /\ etSeed = NilMap
    /\ etApplied = <<>>
    /\ etCount = EtNoCount

RlRest ==
    /\ rlCtor = "returned"
    /\ rlSource = "v1"
    /\ rlSnap = "v1"
    /\ rlTick = FALSE
    /\ rlTicker = "running"
    /\ rlClosed = FALSE
    /\ rlTask = RlSelecting
    /\ rlClose = "idle"
    /\ rlGet = RlNoGet
    /\ rlSettled = FALSE
    /\ rlAfter = RlNotClosed
    /\ rlCount = [changes |-> 0, closes |-> 0]

FkRest ==
    /\ fkFilters = <<>>
    /\ fkChild = [err |-> FALSE, isNil |-> TRUE, kv |-> EmptyMap]
    /\ fkPc = "idle"
    /\ fkMap = NilMap
    /\ fkTodo = {}
    /\ fkRet = [err |-> FALSE, isNil |-> TRUE, kv |-> EmptyMap]

GvRest ==
    /\ gvOpts = [ignoreCase |-> FALSE]
    /\ gvSnap = EmptyMap
    /\ gvObserver = FALSE
    /\ gvRun = GvIdle
    /\ gvGet = GvNoGet
    /\ gvLoads = 0

FlRest ==
    /\ flAll = TRUE
    /\ flFlags = [name \in Range(FlNames) |-> [val |-> FlDefault(name), set |-> FALSE]]
    /\ flParsed = FALSE
    /\ flMap = EmptyMap
    /\ flInited = 0
    /\ flThr = [t \in FlThreads |-> FlNoLoad]
    /\ flCrashed = FALSE
    /\ flCount = [loads |-> 0, sets |-> 0]

ElRest ==
    /\ elClient = FALSE
    /\ elErrs = {}
    /\ elReaders = {}
    /\ elThr = [t \in ElThreads |-> ElNoLoad]
    /\ elReturned = [e \in ElErrors |-> 0]
    /\ elCount = [loads |-> 0, errs |-> 0]

NfRest ==
    /\ nfReaders = 0
    /\ nfWriter = Nil
    /\ nfPending = {}
    /\ nfObservers = 0
    /\ nfTask = "idle"
    /\ nfReg = "idle"
    /\ nfGet = "idle"
    /\ nfCount = [reloads |-> 0, registers |-> 0, gets |-> 0]

vars == <<cfgVars, mlVars, fcVars, owVars, ccVars, csVars, etVars, rlVars, fkVars, gvVars, flVars, elVars, nfVars>>

InitConfig == CfgInit /\ MlRest /\ FcRest /\ OwRest /\ CcRest /\ CsRest /\ EtRest /\ RlRest /\ FkRest /\ GvRest /\ FlRest /\ ElRest /\ NfRest

SpecConfig == InitConfig /\ [][CfgNext]_vars

InitMulti == MlInit /\ CfgRest /\ FcRest /\ OwRest /\ CcRest /\ CsRest /\ EtRest /\ RlRest /\ FkRest /\ GvRest /\ FlRest /\ ElRest /\ NfRest

SpecMulti == InitMulti /\ [][MlNext]_vars

InitFileCache == FcInit /\ CfgRest /\ MlRest /\ OwRest /\ CcRest /\ CsRest /\ EtRest /\ RlRest /\ FkRest /\ GvRest /\ FlRest /\ ElRest /\ NfRest

\* Loads of one FileCacheLoader made one after the other, the file being
\* changed at any moment
SpecFileCache == InitFileCache /\ [][FcNext]_vars

InitOwnership == OwInit /\ CfgRest /\ MlRest /\ FcRest /\ CcRest /\ CsRest /\ EtRest /\ RlRest /\ FkRest /\ GvRest /\ FlRest /\ ElRest /\ NfRest

\* Loads of the loaders of the composition and changes callers make to the
\* maps they hold, in any order
SpecOwnership == InitOwnership /\ [][OwNext]_vars

InitFileCacheConcurrent == CcInit /\ CfgRest /\ FcRest /\ MlRest /\ OwRest /\ CsRest /\ EtRest /\ RlRest /\ FkRest /\ GvRest /\ FlRest /\ ElRest /\ NfRest

\* Loads of one FileCacheLoader by several threads, the file being changed
\* at any moment
SpecFileCacheConcurrent == InitFileCacheConcurrent /\ [][CcNext]_vars

InitConsul == CsInit /\ CcRest /\ CfgRest /\ FcRest /\ MlRest /\ OwRest /\ EtRest /\ RlRest /\ FkRest /\ GvRest /\ FlRest /\ ElRest /\ NfRest

\* Loads of one ConsulLoader, one after another, the keys on the server being
\* changed between them
SpecConsul == InitConsul /\ [][CsNext]_vars

InitEtcdWatch == EtInit /\ CcRest /\ CfgRest /\ CsRest /\ FcRest /\ MlRest /\ OwRest /\ RlRest /\ FkRest /\ GvRest /\ FlRest /\ ElRest /\ NfRest

\* one watch-backed EtcdLoader: a caller of Load, a caller of Close, the
\* watch task, and the server changing its keys at any moment
SpecEtcdWatch == InitEtcdWatch /\ [][EtNext]_vars

\* the same loader when the watch task keeps being scheduled and a Close
\* whose wg.Wait can return does return
SpecEtcdWatchFair ==
    /\ InitEtcdWatch
    /\ [][EtNext]_vars
    /\ WF_vars(EtWatchStep)
    /\ WF_vars(EtCloseReturn)

InitReload == RlInit /\ CcRest /\ CfgRest /\ CsRest /\ EtRest /\ FcRest /\ MlRest /\ OwRest /\ FkRest /\ GvRest /\ FlRest /\ ElRest /\ NfRest

\* one Config with reload enabled: the ticker, the reload task, callers of
\* Get and of Close, and the source changing at any moment
SpecReload == InitReload /\ [][RlNext]_vars

\* the same Config with a loader that succeeds in every Load; the
\* constructor runs on, the ticker keeps firing while it runs and the reload
\* task keeps being scheduled
SpecReloadFair ==
    /\ InitReload
    /\ [][RlNextSucceeding]_vars
    /\ WF_vars(RlNewStep)
    /\ WF_vars(RlTickFires)
    /\ WF_vars(RlTaskStep)

InitFilterKV == FkInit /\ CcRest /\ CfgRest /\ CsRest /\ EtRest /\ FcRest /\ MlRest /\ OwRest /\ RlRest /\ GvRest /\ FlRest /\ ElRest /\ NfRest

\* one Load of a FilterKVLoader, for every list of filters and every result
\* of the decorated loader
SpecFilterKV == InitFilterKV /\ [][FkNext]_vars

InitGet == GvInit /\ CcRest /\ CfgRest /\ CsRest /\ EtRest /\ FcRest /\ FkRest /\ MlRest /\ OwRest /\ RlRest /\ FlRest /\ ElRest /\ NfRest

\* one Config, its constructor and its reloads one after the other, an
\* observer that calls Get for the changed keys, and callers of Get
SpecGet == InitGet /\ [][GvNext]_vars

InitFlagSet == FlInit /\ CcRest /\ CfgRest /\ CsRest /\ EtRest /\ FcRest /\ FkRest /\ GvRest /\ MlRest /\ OwRest /\ RlRest /\ ElRest /\ NfRest

\* one FlagSetLoader: the flag set is parsed and flags are set at any
\* moment, while two threads call Load
SpecFlagSet == InitFlagSet /\ [][FlNext]_vars

InitEtcdLoads == ElInit /\ CcRest /\ CfgRest /\ CsRest /\ EtRest /\ FcRest /\ FkRest /\ FlRest /\ GvRest /\ MlRest /\ OwRest /\ RlRest /\ NfRest

\* one watch-backed Etcd loader: two threads call Load while the watch task
\* buffers decode errors
SpecEtcdLoads == InitEtcdLoads /\ [][ElNext]_vars

InitNotify == NfInit /\ CcRest /\ CfgRest /\ CsRest /\ ElRest /\ EtRest /\ FcRest /\ FkRest /\ FlRest /\ GvRest /\ MlRest /\ OwRest /\ RlRest

\* one Config with reload: the reload task installs maps and notifies the
\* observers, whose callback calls Get, while a thread registers observers
\* and another calls Get
SpecNotify == InitNotify /\ [][NfNext]_vars

\* the same Config when every thread that can take a step keeps being
\* scheduled
SpecNotifyFair ==
    /\ InitNotify
    /\ [][NfNext]_vars
    /\ WF_vars(NfTaskStep)
    /\ WF_vars(NfRegisterStep)
    /\ WF_vars(NfGetStep)

\* ========================================================================
\* Claims about the Config runtime, checked under SpecConfig
\* ========================================================================

\* C2: with reload enabled, the map a Get reads from is a complete snapshot:
\* the one current before the reload in progress or the one that reload built
\* and installed; never a map that is still being built.
C2_GetReadsCompleteSnapshot ==
    (cfgOpts.reload /\ cfgGet.pc = "read")
        => /\ cfgGet.seen \in {cfgSnapPrev, cfgSnapLast}
           /\ cfgGet.val = Lookup(cfgGet.seen, cfgGet.key)

\* a Get reads the old snapshot while the reload task, having built a
\* different map with uppercased keys, waits to install it
C2_Witness ==
    /\ cfgOpts.reload
    /\ cfgOpts.ignoreCase
    /\ cfgGet.pc = "read"
    /\ cfgRun.who = "reload"
    /\ CurStep = "install"
    /\ cfgSnapPrev # cfgSnapLast
    /\ cfgGet.seen = cfgSnapPrev

\* C3: after a reload whose Load failed the snapshot is the one that was
\* installed when the tick fired, and the reload-error handler, if configured,
\* has been called once per failed reload, last with the error of this one.
C3_FailedReloadKeepsSnapshot ==
    (cfgLast = "err" /\ cfgRun.step = 0)
        => /\ cfgObjs[cfgRef] = cfgBefore
           /\ cfgOpts.handler => cfgHandled = cfgErrs
           /\ ~cfgOpts.handler => cfgHandled.n = 0

\* a reload failed with e2, the handler was called, and a later Get finds a key
C3_Witness ==
    /\ cfgLast = "err"
    /\ cfgRun.step = 0
    /\ cfgOpts.handler
    /\ cfgHandled = [n |-> 1, last |-> "e2"]
    /\ cfgGet.pc = "read"
    /\ cfgGet.found

\* the keys whose presence or value differs between two maps
DifferingKeys(old, new) ==
    {k \in DOMAIN old \cup DOMAIN new :
        \/ (k \in DOMAIN old) # (k \in DOMAIN new)
        \/ (k \in DOMAIN old /\ k \in DOMAIN new /\ old[k] # new[k])}

\* C4: the changed-keys list handed to the observers holds exactly the keys
\* whose value differs, the keys only in the new snapshot and the keys only in
\* the old snapshot, each once.
C4_ChangedKeysExact ==
    (cfgNotify.active /\ cfgNotify.idx <= Len(cfgObservers))
        => /\ Range(cfgNotify.changed) = DifferingKeys(cfgBefore, cfgObjs[cfgRef])
           /\ Len(cfgNotify.changed) = Cardinality(Range(cfgNotify.changed))

\* the observers registered when the tick fired are a prefix of the calls of
\* the notification, and none of them is called again after it
CalledOnceInOrder(registered, calls) ==
    /\ Len(calls) >= Len(registered)
    /\ \A i \in 1..Len(registered) : calls[i] = registered[i]
    /\ \A j \in (Len(registered) + 1)..Len(calls) : calls[j] \notin Range(registered)

\* C5: when a reload that changed the snapshot has returned, every observer
\* registered before it was invoked exactly once, in registration order, by
\* the reload task before setConfigMap returned.
C5_ObserversOnceInOrder ==
    (cfgLast = "ok" /\ cfgRun.step = 0 /\ cfgObjs[cfgRef] # cfgBefore)
        => CalledOnceInOrder(cfgObsAtTick, cfgCalls)

\* two observers were registered before a reload that changed the snapshot
C5_Witness ==
    /\ cfgLast = "ok"
    /\ cfgRun.step = 0
    /\ cfgObjs[cfgRef] # cfgBefore
    /\ Len(cfgObsAtTick) = 2
    /\ cfgCalls = <<1, 2>>

\* ========================================================================
\* Claims about MultiLoader
\* ========================================================================

\* children that returned no error
MlSucceeded == {i \in 1..NumLoaders : ~mlChildren[i].err}

\* children that returned an error
MlFailed == {i \in 1..NumLoaders : mlChildren[i].err}

\* successful children whose map holds key k
MlHolders(k) == {i \in MlSucceeded : k \in DOMAIN mlChildren[i].kv}

\* the last declared child among a non-empty set of children
MlLast(S) == CHOOSE i \in S : \A j \in S : j <= i

\* C6: with allowKeyOverwrite=true, whatever order the children finished in,
\* the map Load returns holds exactly the keys of the children, and the value
\* of each key is the one of the last declared child that holds the key.
C6_MergeInDeclarationOrder ==
    (mlPc = "returned" /\ mlAllow /\ MlFailed = {})
        => /\ DOMAIN mlRet.kv = {k \in MlKeys : MlHolders(k) # {}}
           /\ \A k \in DOMAIN mlRet.kv : mlRet.kv[k] = MlLast(MlHolders(k))

\* C6 witness: three children, the key "a" held by the first two and "b" by
\* the last two, finished in the reverse of the declaration order, merged.
C6_Witness ==
    /\ mlPc = "returned"
    /\ mlAllow
    /\ mlOrder = <<3, 2, 1>>
    /\ MlHolders("a") = {1, 2}
    /\ MlHolders("b") = {2, 3}
    /\ mlRet.kv = ("a" :> 2) @@ ("b" :> 3)

\* keys produced by more than one child
MlDuplicated == {k \in MlKeys : Cardinality(MlHolders(k)) > 1}

\* C7: with allowKeyOverwrite=false, if a key is produced by more than one
\* child, Load returns a nil map and an error holding a KeyConflictError for
\* one of the duplicated keys.
C7_DuplicateKeyGivesConflictError ==
    (mlPc \in {"returned", "panic"} /\ ~mlAllow /\ MlDuplicated # {})
        => /\ mlPc = "returned"
           /\ mlRet.isNil
           /\ \E k \in MlDuplicated : KeyConflictError(k) \in Range(mlMerge.errs)

\* C7 witness: overwrite not allowed, the key "b" produced by two children
\* that finished out of order, and Load has returned.
C7_Witness ==
    /\ mlPc = "returned"
    /\ ~mlAllow
    /\ MlHolders("b") = {1, 3}
    /\ mlOrder = <<3, 1, 2>>
    /\ KeyConflictError("b") \in Range(mlMerge.errs)

\* C8: if a child returned an error, Load returns a nil map and an error
\* that holds the error of every failing child, whatever the position of the
\* child and the value of allowKeyOverwrite.
C8_EveryChildErrorReturned ==
    (mlPc \in {"returned", "panic"} /\ MlFailed # {})
        => /\ mlPc = "returned"
           /\ mlRet.isNil
           /\ \A i \in MlFailed : LoadErr(i) \in Range(mlMerge.errs)

\* ========================================================================
\* Claims about FileCacheLoader, checked under SpecFileCache
\* ========================================================================

\* no Load called the decorated loader since the Load that filled the cache,
\* and every later Load that has returned gave a map equal to the one of
\* that Load, without error
ServedFromCache ==
    /\ fcChildCalls = fcFill.calls
    /\ (fcPc = "idle" /\ fcCur.n > fcFill.n)
           => (~fcCur.err /\ fcCur.ret.kv = fcFill.map.kv)

C10_AdvancedModTimeReloadsOnce ==
    /\ (fcPc = "idle" /\ fcCur.cachedT > 0 /\ fcCur.statT > fcCur.cachedT)
           => /\ fcCur.calls = 1
              /\ ~fcCur.err =>
                     /\ fcCur.ret = fcCur.loaded
                     /\ fcCache = [configMap |-> DeepCopyValue(fcCur.loaded),
                                   lastModified |-> fcCur.statT]
    /\ (fcFill.n > 0 /\ ~fcFill.first /\ fcStable) => ServedFromCache

\* C10 witness: the cache filled at time 1, the file changed at time 2, the
\* second Load reloaded it and the third Load returned the reloaded map from
\* the cache.
C10_Witness ==
    /\ fcPc = "idle"
    /\ fcFill.n = 2
    /\ ~fcFill.first
    /\ fcStable
    /\ fcFill.t = 2
    /\ fcFill.map.kv = ("k" :> 2) @@ ("j" :> 2)
    /\ fcCur.n = 3
    /\ fcCur.calls = 0
    /\ fcCur.ret.kv = fcFill.map.kv
    /\ fcChildCalls = 2

\* ========================================================================
\* Claims about the ownership of returned maps, checked under SpecOwnership
\* ========================================================================

\* what a Load of loader l returns when nothing callers did has leaked
OwExpected(l) ==
    CASE l = "plain" -> PlainTree
      [] l = "fcache" -> FileTree
      [] OTHER -> Node("map", MergedItems(PlainTree.items, FileTree.items))

C11_ReturnedMapIsSomeChildResult ==
    \A t \in CcThreads :
        (ccThr[t].done /\ ~ccThr[t].err) => ccThr[t].ret.kv \in ccChildMaps

\* C11 witness: after two changes of the file a thread got from the cache the
\* two entries decoded from the content "v2" while the other thread, having
\* read the file again, waits to save.
C11_Witness ==
    /\ ccWrites = 2
    /\ ccThr["t1"].done
    /\ ccThr["t1"].hit
    /\ ccThr["t1"].ret.kv = Parse("v2").kv
    /\ ccThr["t2"].pc = "save"
    /\ ccThr["t2"].configMap = Parse("v1")

\* ========================================================================
\* Claims on the Consul cache (SpecConsul)
\* ========================================================================

\* the response of the last Load holds the keys of the cache entry it found,
\* each with the ModifyIndex cached for it
CsSameKeysAndVersions == csLast.returned = csLast.before

\* C12: with the cache enabled, a Load that received pairs is answered from
\* the cache exactly when the response holds the same keys as the cache
\* entry, each with the cached ModifyIndex; in every other case (a key
\* added, removed, replaced or re-versioned) the pairs are decoded afresh.
C12_HitExactlyOnSameKeysAndVersions ==
    (csCache.on /\ csLast.kind = "pairs") =>
        /\ csLast.hit <=> CsSameKeysAndVersions
        /\ ~csLast.hit => csLast.decodes >= 1

\* a Load that found the cached key replaced by another one carrying the
\* same ModifyIndex, and decoded the response
C12_Witness ==
    /\ csCache.on
    /\ csLast.kind = "pairs"
    /\ DOMAIN csLast.before = {"a"}
    /\ DOMAIN csLast.returned = {"b"}
    /\ csLast.returned["b"] = csLast.before["a"]
    /\ ~csLast.hit
    /\ csLast.decodes = 1

EtExpected(kv, event) ==
    IF event.type = "DELETE"
    THEN MapDel(kv, event.Key)
    ELSE IF RemoteValueFails(event.Value, etFormat)
    THEN kv
    ELSE GetRemoteKVPairConfigMap(event.Key, event.Value, etFormat).kv @@ kv

\* the entries of the seed with the first n applied events applied in order
RECURSIVE EtExpectedAfter(_)
EtExpectedAfter(n) ==
    IF n = 0 THEN etSeed.kv
    ELSE EtExpected(EtExpectedAfter(n - 1), etApplied[n])

\* C14: once the initial Range has seeded the live map, the live map holds
\* the entries of the seed with every received event applied in the order
\* of delivery (a PUT merges its decoded entries, a DELETE removes the
\* entry named by the event key), and a Load returns the entries of that
\* map.
C14_LiveMapIsSeedWithEventsApplied ==
    /\ etWatch.pc # "none" => etLive.kv = EtExpectedAfter(Len(etApplied))
    /\ (etLast.n > 0 /\ ~etLast.failed) =>
           etLast.ret.kv = EtExpectedAfter(etLast.applied)

\* the watch task finishes applying a PUT whose value does not decode
EtFailedPutApplied ==
    /\ etWatch.pc = "apply"
    /\ etWatch'.pc # "apply"
    /\ etWatch.event.type = "PUT"
    /\ RemoteValueFails(etWatch.event.Value, etFormat)

\* a Load that got past init returns
EtLoadReturns == etLast'.n = etLast.n + 1 /\ ~etLast'.failed

\* C15: applying a PUT that does not decode leaves the live map as it is,
\* returns nothing to any caller and adds the error to the buffer; a Load
\* returns the buffered errors together with the live map and leaves the
\* buffer empty; nothing else changes the buffer, so the Load after it
\* returns a nil error unless another PUT failed to decode in between.
C15_DecodeErrorBufferedUntilNextLoad ==
    [][/\ EtFailedPutApplied =>
              /\ etLive' = etLive
              /\ etLast' = etLast
              /\ etErrs' = Append(etErrs, etWatch.event.n)
       /\ EtLoadReturns =>
              /\ etLast'.errs = etErrs
              /\ etLast'.ret.kv = etLive.kv
              /\ etErrs' = <<>>
       /\ etErrs' # etErrs => (EtFailedPutApplied \/ EtLoadReturns)]_vars

\* a Load returned the error of a PUT together with the entries of the live
\* map, and the Load after it returned a nil error
C15_Witness ==
    /\ etCount.errLoads = 1
    /\ etLast.n = 3
    /\ ~etLast.failed
    /\ etLast.errs = <<>>
    /\ DOMAIN etLast.ret.kv # {}
    /\ etLast.ret.kv = etSeed.kv

\* C16: once a Close that found a client has returned, the watch task of
\* the loader is not running: it has exited, or was never started.
C16_CloseReturnsAfterWatchTaskExited ==
    (\E i \in 1..Len(etCloseRes) : etCloseRes[i].found # Nil) =>
        etWatch.pc \in {"none", "exited"}

\* Close has returned for a loader whose watch task had applied an event
C16_Witness ==
    /\ Len(etCloseRes) = 1
    /\ etCloseRes[1].found = "open"
    /\ etWatch.pc = "exited"
    /\ etLive.kv # etSeed.kv

\* C17: a Close that follows a Close which found the client returns a nil
\* error.
C17_LaterCloseReturnsNoError ==
    \A i \in 2..Len(etCloseRes) :
        etCloseRes[i - 1].found # Nil => ~etCloseRes[i].err

\* C20: a Load that returns an error (the error of init, or the buffered
\* errors of the watch task) returns a map without entries.
C20_ErrorComesWithNilOrEmptyMap ==
    (etLast.n > 0 /\ (etLast.failed \/ etLast.errs # <<>>)) =>
        DOMAIN etLast.ret.kv = {}

\* ========================================================================
\* Claims on the reload task and Close of the Config (SpecReload,
\* SpecReloadFair)
\* ========================================================================

\* C18: once Close has returned, the reload task has exited, and since
\* then the loader was not called and the snapshot was not replaced.
C18_CloseReturnsAfterReloadTaskExited ==
    rlAfter.returned > 0 =>
        /\ rlTask.pc = "exited"
        /\ ~rlAfter.load
        /\ ~rlAfter.install

\* Close has returned after a reload had replaced the snapshot, the ticker
\* is stopped with a tick left in its channel, and the source has changed
\* since
C18_Witness ==
    /\ rlAfter.returned = 1
    /\ rlTask.pc = "exited"
    /\ rlTicker = "stopped"
    /\ rlTick
    /\ rlSnap # rlSource
    /\ rlCount.changes = 2

\* C19: while the Config is not closed, every state of the source is
\* eventually the snapshot Get reads from, unless the source changes again
\* first; and once a tick taken after the last change has completed, the
\* snapshot is the state of the source and every Get returns it.
C19_SourceChangeEventuallyReflected ==
    /\ [](rlSettled => rlSnap = rlSource)
    /\ []((rlGet.made /\ rlGet.settled) => rlGet.value = rlGet.source)
    /\ \A v \in RlStates :
           (rlSource = v) ~> (rlSnap = v \/ rlSource # v \/ rlClosed)

\* a Get made after the reload that followed the second change of the
\* source returned the state of the source
C19_Witness ==
    /\ rlCount.changes = 2
    /\ rlSettled
    /\ rlGet.made
    /\ rlGet.settled
    /\ rlGet.value = rlSource
    /\ ~rlClosed

\* ========================================================================
\* Claims on panics of Load (SpecMulti)
\* ========================================================================

\* C21: no Load of a MultiLoader ends in a panic, whatever the number of
\* its children, what they return, and the value of allowKeyOverwrite.
C21_LoadNeverPanics == mlPc # "panic"

\* ========================================================================
\* Claims on the Config constructor (SpecReload)
\* ========================================================================

\* C22: when the initial Load of the constructor has failed, there is no
\* Config (no snapshot was installed), no ticker was made and no reload
\* task was started, and none of them appears afterwards.
C22_FailedConstructorStartsNothing ==
    rlCtor = "failed" =>
        /\ rlSnap = Nil
        /\ rlTicker = "none"
        /\ ~rlTick
        /\ rlTask = RlNoTask
        /\ ~rlClosed
        /\ ~rlGet.made

\* the constructor has failed after the source had changed
C22_Witness ==
    /\ rlCtor = "failed"
    /\ rlCount.changes > 0

\* ========================================================================
\* Further claims about the Config runtime (SpecConfig)
\* ========================================================================

\* C23: a reload that succeeded and whose loaded map (its keys uppercased
\* when ignore-case is on) is equal to the snapshot it replaced has invoked
\* no observer, from the comparison in notifyObservers until the next tick.
C23_EqualReloadNotifiesNoObserver ==
    /\ (cfgNotify.active /\ cfgRun.who = "reload"
            /\ cfgObjs[cfgRun.oldRef] = cfgObjs[cfgRun.newRef])
           => cfgCalls = <<>>
    /\ (cfgLast = "ok" /\ cfgRun.step = 0 /\ cfgBefore = cfgSnapLast)
           => cfgCalls = <<>>

\* a reload has loaded a map equal to the snapshot while two observers were
\* registered, and has returned
C23_Witness ==
    /\ cfgLast = "ok"
    /\ cfgRun.step = 0
    /\ cfgBefore = cfgSnapLast
    /\ cfgBefore # EmptyMap
    /\ Len(cfgObsAtTick) = 2
    /\ cfgCalls = <<>>

\* ========================================================================
\* Claims on the merge of MultiLoader (SpecMulti)
\* ========================================================================

\* no two children hold the same key
MlDisjoint == \A k \in MlKeys : Cardinality(MlHolders(k)) <= 1

\* C24: when every child succeeds and no two children hold the same key,
\* Load ends by returning, with a nil error, a map whose keys are exactly
\* the keys of the children, each with the value of the child that holds it,
\* for both values of allowKeyOverwrite.
C24_DisjointChildrenGiveUnion ==
    (mlPc \in {"returned", "panic"} /\ MlFailed = {} /\ MlDisjoint)
        => /\ mlPc = "returned"
           /\ mlMerge.errs = <<>>
           /\ DOMAIN mlRet.kv = {k \in MlKeys : MlHolders(k) # {}}
           /\ \A k \in DOMAIN mlRet.kv : mlRet.kv[k] \in MlHolders(k)

\* the entries the successful children hold: child and key
MlHoldings == {<<i, k>> \in MlSucceeded \X MlKeys : k \in DOMAIN mlChildren[i].kv}

\* the key conflict errors Load has collected
MlConflicts == SelectSeq(mlMerge.errs, LAMBDA e : e.kind = "conflict")

\* C25: with allowKeyOverwrite=false, an entry of a child whose key, letter
\* case ignored, was met before gives a KeyConflictError for that key, so
\* there are as many of them as entries beyond the first of each such key;
\* and a Load that returns a map returns the entries of the children under
\* their keys as the children spelled them.
C25_DuplicatesIgnoreCaseKeysKeepCase ==
    (mlPc = "returned" /\ ~mlAllow)
        => /\ Len(MlConflicts) =
                  Cardinality(MlHoldings)
                      - Cardinality({ToLower(h[2]) : h \in MlHoldings})
           /\ \A n \in DOMAIN MlConflicts :
                  \E g, h \in MlHoldings :
                      /\ g # h
                      /\ h[2] = MlConflicts[n].key
                      /\ ToLower(g[2]) = ToLower(h[2])
           /\ mlMerge.errs # <<>> => mlRet = NilMap
           /\ mlMerge.errs = <<>> =>
                  /\ ~mlRet.isNil
                  /\ DOMAIN mlRet.kv = {h[2] : h \in MlHoldings}
                  /\ \A h \in MlHoldings : mlRet.kv[h[2]] = h[1]

\* one child holds "a", another holds "A", and Load has returned one
\* KeyConflictError and no map
C25_Witness ==
    /\ mlPc = "returned"
    /\ ~mlAllow
    /\ MlFailed = {}
    /\ MlDisjoint
    /\ {ToLower(h[2]) : h \in MlHoldings} = {"a"}
    /\ Len(mlMerge.errs) = 1
    /\ mlMerge.errs[1].kind = "conflict"
    /\ mlRet = NilMap

\* ========================================================================
\* Claims on FilterKVLoader (SpecFilterKV)
\* ========================================================================

\* the filters of the given type
FkOfType(t) == {i \in DOMAIN fkFilters : fkFilters[i].type = t}

\* C26: a key of the decorated loader's map is in the map Load returns if
\* and only if every blacklist filter allows it and there is no whitelist
\* filter or some whitelist filter allows it; so a key a blacklist filter
\* denies is absent also when a whitelist filter allows it.
C26_KeptIffNotDeniedAndPermitted ==
    (fkPc = "returned" /\ ~fkChild.err)
        => /\ DOMAIN fkRet.kv \subseteq DOMAIN fkChild.kv
           /\ \A k \in DOMAIN fkChild.kv :
                  k \in DOMAIN fkRet.kv
                      <=> /\ \A i \in FkOfType("blacklist") :
                                 k \in fkFilters[i].allowed
                          /\ \/ FkOfType("whitelist") = {}
                             \/ \E i \in FkOfType("whitelist") :
                                    k \in fkFilters[i].allowed

\* Load has returned a map without the key b, which a blacklist filter
\* denies and a whitelist filter allows, and with the key a, which the second
\* of two whitelist filters allows
C26_Witness ==
    /\ fkPc = "returned"
    /\ ~fkChild.err
    /\ DOMAIN fkChild.kv = {"a", "b"}
    /\ DOMAIN fkRet.kv = {"a"}
    /\ Len(fkFilters) = 3
    /\ fkFilters[1] = [type |-> "whitelist", allowed |-> {"b"}]
    /\ fkFilters[2] = [type |-> "blacklist", allowed |-> {"a"}]
    /\ fkFilters[3] = [type |-> "whitelist", allowed |-> {"a"}]

\* ========================================================================
\* Claims on the values Get returns (SpecGet)
\* ========================================================================

\* C27: a Get whose key (uppercased when ignore-case is on) is not in the
\* snapshot it reads returns nil when it has no default value, and the
\* default value itself when it has one.
C27_AbsentKeyGivesNilOrDefault ==
    (gvGet.made
        /\ GetKey(gvOpts.ignoreCase, gvGet.key) \notin DOMAIN gvGet.snap)
        => gvGet.ret = IF gvGet.def = NoDef THEN Nil ELSE gvGet.def

\* a Get with the default 7 has returned 7 for the key c, which is not in a
\* snapshot that holds other keys
C27_Witness ==
    /\ gvGet.made
    /\ gvGet.key = "c"
    /\ gvGet.def = "#7"
    /\ gvGet.ret = "#7"
    /\ gvGet.snap # EmptyMap
    /\ ~gvOpts.ignoreCase
    /\ "c" \notin DOMAIN gvGet.snap

\* C28: with ignore-case on, a Get returns what a Get of any other
\* letter-case variant of its key returns on the same snapshot, whatever
\* map was loaded, also one with keys that differ only in case, and after
\* every reload; and the keys of every snapshot are uppercase.
C28_GetSameForEveryCaseVariant ==
    gvOpts.ignoreCase =>
        /\ \A k \in DOMAIN gvSnap : ToUpper(k) = k
        /\ gvGet.made =>
               \A k \in GvKeys :
                   ToLower(k) = ToLower(gvGet.key) =>
                       GetValue(gvGet.snap, TRUE, k, gvGet.def) = gvGet.ret

\* after the last reload, which loaded a map that holds the keys a and A, a
\* Get of a has returned the value the snapshot holds for A
C28_Witness ==
    /\ gvOpts.ignoreCase
    /\ gvLoads = MaxGvLoads
    /\ gvRun.pc = "idle"
    /\ gvGet.made
    /\ gvGet.key = "a"
    /\ gvGet.ret = "v1"
    /\ gvGet.snap = gvSnap
    /\ gvSnap = ("A" :> "v1")

\* C30: a Get the observer makes for a changed key while it is invoked
\* returns the value the key has in the loaded map, nil for a key that is
\* not in it, and the loaded map is the snapshot then.
C30_ObserverGetsPostReloadValue ==
    /\ gvRun.pc = "callback" => gvSnap = gvRun.new
    /\ (gvGet.inObserver /\ gvGet.load = gvLoads /\ gvRun.pc = "callback")
           => /\ gvGet.snap = gvRun.new
              /\ gvGet.ret = Lookup(gvRun.new, gvGet.key)

\* the observer has made a Get for a removed key and got nil
C30_Witness ==
    /\ gvRun.pc = "callback"
    /\ gvGet.inObserver
    /\ gvGet.load = gvLoads
    /\ gvGet.key \in DOMAIN gvRun.old
    /\ gvGet.key \notin DOMAIN gvRun.new
    /\ gvGet.ret = Nil

\* ========================================================================
\* Claims on FlagSetLoader (SpecFlagSet)
\* ========================================================================

\* C29: a Load that started on a parsed flag set and has returned holds,
\* for every flag selected when it started (every flag, or every flag that
\* was set), the text of the value the flag had when the Load started or
\* of the value it has at the return.
C29_LoadReturnsCurrentFlagValues ==
    \A t \in FlThreads :
        (flThr[t].n > 0 /\ flThr[t].pc = "idle" /\ flThr[t].parsed
                /\ flThr[t].n = flCount.loads /\ ~flCrashed)
            => \A name \in Range(VisitedFlags(flAll, flThr[t].begin)) :
                   /\ name \in DOMAIN flThr[t].ret
                   /\ flThr[t].ret[name] \in
                          {ValueString(flThr[t].begin[name].val),
                           ValueString(flFlags[name].val)}

\* ========================================================================
\* Claims on the initialisation of the watch-backed EtcdLoader
\* (SpecEtcdWatch)
\* ========================================================================

\* C31: never is a second client created, a second Range issued or a
\* second watch task started; and once a Load has returned without an
\* error, the client was created, the Range issued and the watch task
\* started, each once.
C31_InitialisedOnceByFirstSuccessfulLoad ==
    /\ etCount.clients <= 1
    /\ etCount.ranges <= 1
    /\ etCount.tasks <= 1
    /\ (etLast.n > 0 /\ ~etLast.failed)
           => /\ etCount.clients = 1
              /\ etCount.ranges = 1
              /\ etCount.tasks = 1

\* C32: a Load that returns a nil error returns a map that a successful
\* initial Range has seeded, with the watch task started; after a failed
\* initial Range or decoding no Load returns a nil error with a map that
\* was never seeded.
C32_NoSuccessWithoutSeed ==
    (etLast.n > 0 /\ ~etLast.failed)
        => /\ etCount.tasks > 0
           /\ etWatch.pc # "none"

\* ========================================================================
\* Claims on Close of the watch-backed EtcdLoader (SpecEtcdWatchFair)
\* ========================================================================

\* C33: a Close that has closed the client and waits for the watch task
\* eventually returns, unless a panic has ended the process.
C33_CloseAlwaysReturns ==
    (etClose.pc = "wait") ~> (etClose.pc = "idle" \/ EtCrashed)

\* ========================================================================
\* Claims on events after an empty initial Range (SpecEtcdWatch)
\* ========================================================================

\* C37: when the initial Range has seeded a live map without entries (it
\* returned no keys), the watch task does not panic on the events it
\* applies, and a Load returns the entries of the PUT events applied
\* before it.
C37_PutAfterEmptyRangeIsMerged ==
    (etCount.tasks = 1 /\ DOMAIN etSeed.kv = {})
        => /\ etWatch.pc # "panicked"
           /\ (etLast.n > 0 /\ ~etLast.failed)
                  => etLast.ret.kv = EtExpectedAfter(etLast.applied)

\* ========================================================================
\* Claims on repeated Close of the Config (SpecReload)
\* ========================================================================

\* C35: no Close of a Config with reload enabled panics, the second and
\* later ones included.
C35_RepeatedCloseIsSafe == rlClose # "panicked"

\* C40: while no flag is set after the parse, no Load ends the process, and
\* every Load that started on the parsed flag set returns the complete
\* map: every selected flag with the text of its value, also when the Loads
\* of several threads run at the same time.
C40_ConcurrentFirstLoadsReturnCompleteMap ==
    flCount.sets = 0 =>
        /\ ~flCrashed
        /\ \A t \in FlThreads :
               (flThr[t].n > 0 /\ flThr[t].pc = "idle" /\ flThr[t].parsed)
                   => flThr[t].ret =
                          [name \in Range(VisitedFlags(flAll, flThr[t].begin))
                              |-> ValueString(flThr[t].begin[name].val)]

\* ========================================================================
\* Claims on the stored pair of the FileCacheLoader under concurrent Loads
\* (SpecFileCacheConcurrent)
\* ========================================================================

\* C36: no step replaces the cached pair by one with an earlier
\* modification time.
C36_CachedModTimeNeverRegresses ==
    [][ccCache'.lastModified >= ccCache.lastModified]_vars

\* ========================================================================
\* Claims on the Consul cache after a Load that failed in decoding
\* (SpecConsul)
\* ========================================================================

\* C39: with the cache enabled, a Load that fails in decoding the base-64
\* or the format of a Value leaves the entry of the cache (the map and the
\* ModifyIndexes) as it found it, and the Load after it, when the response
\* holds the keys and ModifyIndexes that were cached before the failure,
\* is answered with the map that was cached before the failure.
C39_DecodeFailureLeavesCacheEntry ==
    csCache.on =>
        /\ CsDecodeFailed => CsEntry = csLast.cacheBefore
        /\ (/\ csLast.prevDecodeErr
            /\ csLast.kind = "pairs"
            /\ csLast.returned = csLast.prevCache.versionIDs)
               => /\ csLast.hit
                  /\ ~csLast.err
                  /\ ~csLast.panic
                  /\ csLast.ret.kv = csLast.prevCache.configMap.kv

\* a first Load filled the cache, a second one failed on a Value that is no
\* base-64 under a new ModifyIndex, and the third, the key being back to
\* its former ModifyIndex, is answered from the cache
C39_Witness ==
    /\ csCache.on
    /\ csLoads = 3
    /\ csLast.prevDecodeErr
    /\ csLast.kind = "pairs"
    /\ csLast.hit
    /\ DOMAIN csLast.prevCache.versionIDs # {}
    /\ csLast.returned = csLast.prevCache.versionIDs
    /\ DOMAIN csLast.ret.kv # {}

\* ========================================================================
\* Claims on concurrent Loads of the watch-backed Etcd loader
\* (SpecEtcdLoads)
\* ========================================================================

\* the errors the watch task buffered so far
ElBuffered == 1..elCount.errs

\* C38: every decode error the watch task buffered is returned by one Load
\* at most, and none leaves the buffer without a Load that returned it or
\* is about to return it.
C38_EachErrorReturnedByOneLoad ==
    \A e \in ElBuffered :
        /\ elReturned[e] <= 1
        /\ \/ e \in elErrs
           \/ elReturned[e] >= 1
           \/ \E t \in ElThreads : e \in elThr[t].err

\* ========================================================================
\* Claims on the lock of a Config during notification (SpecNotifyFair)
\* ========================================================================

\* C34: a Get called by an observer's callback on the Config it was handed
\* always returns, whatever RegisterObserver and Get calls other threads
\* make meanwhile.
C34_CallbackGetAlwaysReturns ==
    (nfTask = "cbRLock") ~> (nfTask = "return")

====
